---- MODULE Spec2Model ----
(***************************************************************************)
(* State-machine model of the SocialConnect API (users, posts, comments,   *)
(* likes, JWT authentication).  The document store is the shared state;    *)
(* every HTTP request is a process that suspends at each data-store call   *)
(* (each await), so one action below is one handler step between awaits.   *)
(***************************************************************************)
EXTENDS Integers, Sequences, FiniteSets, TLC

\* ------------------------------------------------------------------ bounds
MaxUsers == 2        \* users in the store
MaxPosts == 1        \* posts in the store
MaxComments == 3     \* comments in the store
MaxReq == 2          \* requests in flight at the same time
MaxOps == 3          \* requests started in one behaviour

MaxSeqOps == 4      \* requests started when they run one at a time
MaxTime == 2        \* clock ticks in one behaviour
MaxNewPosts == 2    \* posts created through POST /api/posts

VARIABLES users, posts, comments, likes, req, nOps, toggles, now

vars == <<users, posts, comments, likes, req, nOps, toggles, now>>

Procs == 1..MaxReq

\* 0 stands for "no id" (null / undefined); real ids are positions >= 1
NoId == 0

\* the request slot of a process that is not handling any request
Idle ==
  [op |-> "idle", pc |-> "idle", reqUser |-> NoId, userId |-> NoId,
   targetType |-> "none", targetId |-> NoId, docId |-> NoId,
   flag |-> FALSE, username |-> "none", email |-> "none", password |-> "none",
   newPassword |-> "none", confirmPassword |-> "none", returned |-> "none",
   content |-> "none", imageUrl |-> "none", q |-> "none", page |-> 0,
   limit |-> 0, docContent |-> "none", docImageUrl |-> "none",
   docContentType |-> "none", extra |-> "none", result |-> <<>>, nested |-> <<>>,
   likesBefore |-> <<>>, countsBefore |-> <<>>,
   total |-> 0, totalPages |-> 0, hasNextPage |-> FALSE, hasPrevPage |-> FALSE,
   error |-> "none",
   status |-> 0, message |-> "none"]

\* ------------------------------------------------------------ documents
\* bcrypt.hash of userSchema.pre('save'): one-way, distinct per password
Hash(password) ==
  CASE password = "Password123" -> "$2a$12$Password123"
    [] password = "Otra456789" -> "$2a$12$Otra456789"
    [] OTHER -> "$2a$12$other"

\* User.create defaults; password is the stored hash, "none" when absent
NewUser(username, email, password, oauthProvider, oauthId) ==
  [username |-> username, email |-> email, password |-> password,
   isActive |-> TRUE, oauthProvider |-> oauthProvider, oauthId |-> oauthId,
   lastLogin |-> -1]

\* postSchema.pre('save'): derived content type
ContentTypeOf(content, imageUrl) ==
  IF imageUrl # "none" /\ content # "" THEN "text_image"
  ELSE IF imageUrl # "none" THEN "image"
  ELSE "text"

\* Post.create defaults
NewPost(userId, content, imageUrl) ==
  [userId |-> userId, content |-> content, imageUrl |-> imageUrl,
   likesCount |-> 0, commentsCount |-> 0, isActive |-> TRUE,
   contentType |-> ContentTypeOf(content, imageUrl)]

\* Comment.create defaults
NewComment(postId, userId, content, parentCommentId) ==
  [postId |-> postId, userId |-> userId, content |-> content,
   parentCommentId |-> parentCommentId, likesCount |-> 0,
   isActive |-> TRUE, isEdited |-> FALSE]

\* Like.create defaults
NewLike(userId, targetType, targetId) ==
  [userId |-> userId, targetType |-> targetType, targetId |-> targetId,
   isActive |-> TRUE]

\* ------------------------------------------------------- store helpers
IdsOf(coll) == 1..Len(coll)

\* Model.findById: the id when a document with it exists, else NoId
Exists(coll, id) == id \in IdsOf(coll)

\* User.findOne({ isActive: true }): first active user in natural order
DefaultUser ==
  IF \E u \in IdsOf(users) : users[u].isActive
  THEN CHOOSE u \in IdsOf(users) :
         users[u].isActive /\ \A v \in IdsOf(users) : users[v].isActive => u <= v
  ELSE NoId

\* the target document of a like, when it exists
TargetExists(tt, tid) ==
  \/ tt = "Post" /\ Exists(posts, tid)
  \/ tt = "Comment" /\ Exists(comments, tid)

TargetActive(tt, tid) ==
  \/ tt = "Post" /\ Exists(posts, tid) /\ posts[tid].isActive
  \/ tt = "Comment" /\ Exists(comments, tid) /\ comments[tid].isActive

\* an update that sets the counter ($set) where the code increments it
IncLikesPostsSet(tt, tid, d) ==
  IF tt = "Post" /\ tid \in 1..Len(posts)
  THEN [posts EXCEPT ![tid].likesCount = d]
  ELSE posts

\* Model.findByIdAndUpdate(id, { $inc: { likesCount: d } }): atomic on one
\* document, no validators, silently nothing when the id matches no document
IncLikesPosts(tt, tid, d) ==
  IF tt = "Post" /\ Exists(posts, tid)
  THEN [posts EXCEPT ![tid].likesCount = @ + d]
  ELSE posts

IncLikesComments(tt, tid, d) ==
  IF tt = "Comment" /\ Exists(comments, tid)
  THEN [comments EXCEPT ![tid].likesCount = @ + d]
  ELSE comments

\* Post.findByIdAndUpdate(postId, { $inc: { commentsCount: d } })
IncComments(pid, d) ==
  IF Exists(posts, pid)
  THEN [posts EXCEPT ![pid].commentsCount = @ + d]
  ELSE posts

\* Like.findOne({ userId, targetType, targetId }): id of the record or NoId
FindLike(u, tt, tid) ==
  IF \E l \in IdsOf(likes) :
       likes[l].userId = u /\ likes[l].targetType = tt /\ likes[l].targetId = tid
  THEN CHOOSE l \in IdsOf(likes) :
       likes[l].userId = u /\ likes[l].targetType = tt /\ likes[l].targetId = tid
  ELSE NoId

\* likeSchema.statics.hasUserLiked: same lookup restricted to isActive: true
HasUserLiked(u, tt, tid) ==
  IF \E l \in IdsOf(likes) :
       /\ likes[l].userId = u /\ likes[l].targetType = tt
       /\ likes[l].targetId = tid /\ likes[l].isActive
  THEN CHOOSE l \in IdsOf(likes) :
       /\ likes[l].userId = u /\ likes[l].targetType = tt
       /\ likes[l].targetId = tid /\ likes[l].isActive
  ELSE NoId

\* the unique index { userId, targetType, targetId } admits the insert
LikeIndexAdmits(u, tt, tid) == FindLike(u, tt, tid) = NoId

\* ------------------------------------------------------ request helpers
Set(p, r) == req' = [req EXCEPT ![p] = r]

\* the handler answered: status and message of the response
Answer(p, status, message) ==
  Set(p, [req[p] EXCEPT !.pc = "done", !.status = status, !.message = message])

At(p, op, pc) == req[p].op = op /\ req[p].pc = pc

\* a slot is free when it holds no request or an answered one (the response
\* stays readable until the next request takes the slot); a new request
\* takes the lowest free slot
Free(p) == req[p].pc \in {"idle", "done"}

CanStart(p) ==
  /\ Free(p)
  /\ \A q \in Procs : q < p => ~Free(q)

\* req.user as the route hands it to the controller: none (the like and
\* comment routers mount no authenticate middleware) or an active user
ReqUsers == {NoId} \cup {u \in IdsOf(users) : users[u].isActive}

\* history: successful toggleLike requests completed per (user, target)
MaxId == IF MaxPosts > MaxComments THEN MaxPosts ELSE MaxComments
LikeKeys == (1..MaxUsers) \X {"Post", "Comment"} \X (1..MaxId)

NoHistory == toggles = [k \in LikeKeys |-> 0]

\* the toggleLike request of process p completed with a 200
Toggled(p) ==
  toggles' = [toggles EXCEPT ![<<req[p].userId, req[p].targetType, req[p].targetId>>] = @ + 1]

\* ------------------------------------------------------------- likes
TargetTypes == {"Post", "Comment", "User"}

TargetIds(tt) ==
  IF tt = "Comment" THEN 1..(Len(comments) + 1) ELSE 1..(Len(posts) + 1)

NotFoundMessage(tt) ==
  IF tt = "Post" THEN "Post no encontrado" ELSE "Comentario no encontrado"

\* every likesCount of the store, posts first
LikeCounts ==
  [i \in 1..Len(posts) |-> posts[i].likesCount]
  \o [i \in 1..Len(comments) |-> comments[i].likesCount]

\* validateToggleLike / validateCreateLike, then the controller's choice of
\* the acting user: req.user, else the first active user of the store
LikeStart(p, op, u, tt, tid) ==
  /\ CanStart(p)
  /\ u \in ReqUsers
  /\ tt \in TargetTypes
  /\ tid \in TargetIds(tt)
  /\ nOps' = nOps + 1
  /\ LET r == [Idle EXCEPT !.op = op, !.reqUser = u, !.targetType = tt,
                           !.targetId = tid, !.likesBefore = likes,
                           !.countsBefore = LikeCounts]
         actor == IF u # NoId THEN u ELSE DefaultUser
     IN  IF tt \notin {"Post", "Comment"}
         THEN Set(p, [r EXCEPT !.pc = "done", !.status = 400,
                               !.message = "Errores de validación"])
         ELSE IF actor = NoId
         THEN Set(p, [r EXCEPT !.pc = "done", !.status = 400,
                               !.message = "No hay usuarios en el sistema. Primero crea un usuario."])
         ELSE Set(p, [r EXCEPT !.userId = actor,
                               !.pc = IF op = "toggleLike" THEN "findTarget"
                                                            ELSE "hasLiked"])
  /\ UNCHANGED <<users, posts, comments, likes, toggles, now>>

\* POST /api/likes/toggle
ToggleLikeStart(p, u, tt, tid) == LikeStart(p, "toggleLike", u, tt, tid)

\* POST /api/likes
CreateLikeStart(p, u, tt, tid) == LikeStart(p, "createLike", u, tt, tid)

\* createLike: Like.hasUserLiked finds an active like of the user
CreateLikeHasLiked(p) ==
  /\ At(p, "createLike", "hasLiked")
  /\ IF HasUserLiked(req[p].userId, req[p].targetType, req[p].targetId) # NoId
     THEN Answer(p, 400, "Ya has dado like a este contenido")
     ELSE Set(p, [req[p] EXCEPT !.pc = "findTarget"])
  /\ UNCHANGED <<users, posts, comments, likes, nOps, toggles, now>>

\* toggleLike / createLike: the target must exist and be active
LikeFindTarget(p) ==
  /\ req[p].op \in {"toggleLike", "createLike"}
  /\ req[p].pc = "findTarget"
  /\ IF ~TargetActive(req[p].targetType, req[p].targetId)
     THEN Answer(p, 404, NotFoundMessage(req[p].targetType))
     ELSE Set(p, [req[p] EXCEPT !.pc = IF req[p].op = "toggleLike"
                                       THEN "findLike" ELSE "preSave"])
  /\ UNCHANGED <<users, posts, comments, likes, nOps, toggles, now>>

\* Like.toggleLike: findOne, then flip the loaded record in memory
ToggleLikeFindLike(p) ==
  /\ At(p, "toggleLike", "findLike")
  /\ LET l == FindLike(req[p].userId, req[p].targetType, req[p].targetId)
     IN  IF l # NoId
         THEN Set(p, [req[p] EXCEPT !.docId = l, !.flag = ~likes[l].isActive,
                                    !.pc = "save"])
         ELSE Set(p, [req[p] EXCEPT !.pc = "preSave"])
  /\ UNCHANGED <<users, posts, comments, likes, nOps, toggles, now>>

\* Like.toggleLike: existingLike.save() writes the flipped isActive
ToggleLikeSave(p) ==
  /\ At(p, "toggleLike", "save")
  /\ likes' = [likes EXCEPT ![req[p].docId].isActive = req[p].flag]
  /\ Set(p, [req[p] EXCEPT !.pc = "inc"])
  /\ UNCHANGED <<users, posts, comments, nOps, toggles, now>>

\* Like.toggleLike: the counter follows the new state of the record
ToggleIncrementUp(isActive) == 1

ToggleIncrement(isActive) == IF isActive THEN 1 ELSE -1

\* a label taken from the state the record had before the toggle
ToggleActionStale(isActive) == IF isActive THEN "unliked" ELSE "liked"

\* toggleLike's response: data.action from the isActive of the returned like
ToggleAction(isActive) == IF isActive THEN "liked" ELSE "unliked"

\* Like.toggleLike: $inc likesCount by +1 or -1, then the response
ToggleLikeInc(p) ==
  /\ At(p, "toggleLike", "inc")
  /\ LET d == ToggleIncrement(req[p].flag)
     IN  /\ posts' = IncLikesPosts(req[p].targetType, req[p].targetId, d)
         /\ comments' = IncLikesComments(req[p].targetType, req[p].targetId, d)
  /\ Set(p, [req[p] EXCEPT !.pc = "done", !.status = 200,
               !.message = IF req[p].flag THEN "Like agregado exitosamente"
                                          ELSE "Like removido exitosamente",
               !.returned = ToggleAction(req[p].flag)])
  /\ Toggled(p)
  /\ UNCHANGED <<users, likes, nOps, now>>

\* likeSchema.pre('save') of a new active like: $inc likesCount by 1,
\* before the document is written
LikePreSave(p) ==
  /\ req[p].op \in {"toggleLike", "createLike"}
  /\ req[p].pc = "preSave"
  /\ posts' = IncLikesPosts(req[p].targetType, req[p].targetId, 1)
  /\ comments' = IncLikesComments(req[p].targetType, req[p].targetId, 1)
  /\ Set(p, [req[p] EXCEPT !.pc = "insert"])
  /\ UNCHANGED <<users, likes, nOps, toggles, now>>

\* the store's answer to the insert of a like: written, or E11000
InsertLikeNoIndex(u, tt, tid) == TRUE

InsertLikeAdmitted(u, tt, tid) == LikeIndexAdmits(u, tt, tid)

\* Like.create: the insert, refused by the unique index with E11000, which
\* errorHandler turns into a 400
LikeInsert(p) ==
  /\ req[p].op \in {"toggleLike", "createLike"}
  /\ req[p].pc = "insert"
  /\ IF InsertLikeAdmitted(req[p].userId, req[p].targetType, req[p].targetId)
     THEN /\ likes' = Append(likes, NewLike(req[p].userId, req[p].targetType,
                                            req[p].targetId))
          /\ Set(p, [req[p] EXCEPT !.docId = Len(likes) + 1, !.flag = TRUE,
                       !.pc = "done",
                       !.status = IF req[p].op = "toggleLike" THEN 200 ELSE 201,
                       !.message = IF req[p].op = "toggleLike"
                                   THEN "Like agregado exitosamente"
                                   ELSE "Like creado exitosamente",
                       !.returned = IF req[p].op = "toggleLike"
                                    THEN ToggleAction(TRUE) ELSE "none"])
     ELSE /\ likes' = likes
          /\ Answer(p, 400, "Ya existe un registro con userId")
  /\ IF req'[p].status = 200 THEN Toggled(p) ELSE UNCHANGED toggles
  /\ UNCHANGED <<users, posts, comments, nOps, now>>

\* DELETE /api/likes/:id: findById, the ownership check
DeleteLikeStart(p, u, id) ==
  /\ CanStart(p)
  /\ u \in ReqUsers
  /\ id \in 1..(Len(likes) + 1)
  /\ nOps' = nOps + 1
  /\ LET r == [Idle EXCEPT !.op = "deleteLike", !.reqUser = u, !.docId = id]
     IN  IF ~Exists(likes, id)
         THEN Set(p, [r EXCEPT !.pc = "done", !.status = 404,
                               !.message = "Like no encontrado"])
         ELSE IF u # NoId /\ likes[id].userId # u
         THEN Set(p, [r EXCEPT !.pc = "done", !.status = 403,
                               !.message = "No tienes permisos para eliminar este like"])
         ELSE Set(p, [r EXCEPT !.pc = "save", !.targetType = likes[id].targetType,
                               !.targetId = likes[id].targetId])
  /\ UNCHANGED <<users, posts, comments, likes, toggles, now>>

\* deleteLike: like.isActive = false; like.save()
DeleteLikeSave(p) ==
  /\ At(p, "deleteLike", "save")
  /\ likes' = [likes EXCEPT ![req[p].docId].isActive = FALSE]
  /\ Set(p, [req[p] EXCEPT !.pc = "inc"])
  /\ UNCHANGED <<users, posts, comments, nOps, toggles, now>>

\* deleteLike: $inc likesCount by -1, then the response
DeleteLikeInc(p) ==
  /\ At(p, "deleteLike", "inc")
  /\ posts' = IncLikesPosts(req[p].targetType, req[p].targetId, -1)
  /\ comments' = IncLikesComments(req[p].targetType, req[p].targetId, -1)
  /\ Answer(p, 200, "Like eliminado exitosamente")
  /\ UNCHANGED <<users, likes, nOps, toggles, now>>

\* ------------------------------------------------------------ comments
Contents == {"hola"}

\* comment creations in flight that have not yet written their document
PendingComments ==
  Cardinality({q \in Procs : req[q].op = "createComment" /\ req[q].pc # "done"
                             /\ req[q].pc # "inc"})

\* POST /api/comments: validateCreateComment, then the acting user
CreateCommentStart(p, u, pid, parent, content) ==
  /\ CanStart(p)
  /\ Len(comments) + PendingComments < MaxComments
  /\ u \in ReqUsers
  /\ pid \in 1..(Len(posts) + 1)
  /\ parent \in 0..(Len(comments) + 1)
  /\ content \in Contents \cup {""}
  /\ nOps' = nOps + 1
  /\ LET r == [Idle EXCEPT !.op = "createComment", !.reqUser = u,
                           !.targetId = pid, !.docId = parent,
                           !.message = content]
         actor == IF u # NoId THEN u ELSE DefaultUser
     IN  IF content = ""
         THEN Set(p, [r EXCEPT !.pc = "done", !.status = 400,
                               !.message = "Errores de validación"])
         ELSE IF actor = NoId
         THEN Set(p, [r EXCEPT !.pc = "done", !.status = 400,
                               !.message = "No hay usuarios en el sistema. Primero crea un usuario."])
         ELSE Set(p, [r EXCEPT !.userId = actor, !.pc = "findPost"])
  /\ UNCHANGED <<users, posts, comments, likes, toggles, now>>

\* createComment: the post must exist and be active
CreateCommentFindPost(p) ==
  /\ At(p, "createComment", "findPost")
  /\ IF ~TargetActive("Post", req[p].targetId)
     THEN Answer(p, 404, "Post no encontrado")
     ELSE Set(p, [req[p] EXCEPT !.pc = IF req[p].docId # NoId
                                       THEN "findParent" ELSE "create"])
  /\ UNCHANGED <<users, posts, comments, likes, nOps, toggles, now>>

\* createComment: a reply's parent comment must exist and be active
CreateCommentFindParent(p) ==
  /\ At(p, "createComment", "findParent")
  /\ IF ~TargetActive("Comment", req[p].docId)
     THEN Answer(p, 404, "Comentario padre no encontrado")
     ELSE Set(p, [req[p] EXCEPT !.pc = "create"])
  /\ UNCHANGED <<users, posts, comments, likes, nOps, toggles, now>>

\* createComment: Comment.create
CreateCommentCreate(p) ==
  /\ At(p, "createComment", "create")
  /\ comments' = Append(comments, NewComment(req[p].targetId, req[p].userId,
                                             req[p].message, req[p].docId))
  /\ Set(p, [req[p] EXCEPT !.pc = "inc", !.docId = Len(comments) + 1])
  /\ UNCHANGED <<users, posts, likes, nOps, toggles, now>>

\* createComment: $inc commentsCount by 1, then the response
CreateCommentInc(p) ==
  /\ At(p, "createComment", "inc")
  /\ posts' = IncComments(req[p].targetId, 1)
  /\ Answer(p, 201, "Comentario creado exitosamente")
  /\ UNCHANGED <<users, comments, likes, nOps, toggles, now>>

\* PUT /api/comments/:id and DELETE /api/comments/:id: findById and the
\* ownership check, which is skipped when req.user is not set
CommentWriteStart(p, op, u, id, content) ==
  /\ CanStart(p)
  /\ u \in ReqUsers
  /\ id \in 1..(Len(comments) + 1)
  /\ nOps' = nOps + 1
  /\ LET r == [Idle EXCEPT !.op = op, !.reqUser = u, !.docId = id]
     IN  IF op = "updateComment" /\ content = ""
         THEN Set(p, [r EXCEPT !.pc = "done", !.status = 400,
                               !.message = "Errores de validación"])
         ELSE IF ~Exists(comments, id)
         THEN Set(p, [r EXCEPT !.pc = "done", !.status = 404,
                               !.message = "Comentario no encontrado"])
         ELSE IF u # NoId /\ comments[id].userId # u
         THEN Set(p, [r EXCEPT !.pc = "done", !.status = 403,
                               !.message = IF op = "updateComment"
                                  THEN "No tienes permisos para actualizar este comentario"
                                  ELSE "No tienes permisos para eliminar este comentario"])
         ELSE Set(p, [r EXCEPT !.pc = "save", !.targetId = comments[id].postId,
                               !.message = content])
  /\ UNCHANGED <<users, posts, comments, likes, toggles, now>>

UpdateCommentStart(p, u, id, content) ==
  /\ content \in {"", "editado"}
  /\ CommentWriteStart(p, "updateComment", u, id, content)

\* an updateComment whose save also marks the comment active again
UpdateCommentSaveRestore(p) ==
  /\ At(p, "updateComment", "save")
  /\ comments' = [comments EXCEPT ![req[p].docId].content = req[p].message,
                                  ![req[p].docId].isEdited = TRUE,
                                  ![req[p].docId].isActive = TRUE]
  /\ Answer(p, 200, "Comentario actualizado exitosamente")
  /\ UNCHANGED <<users, posts, likes, nOps, toggles, now>>

\* updateComment: comment.save() of content and isEdited, then the response
UpdateCommentSave(p) ==
  /\ At(p, "updateComment", "save")
  /\ comments' = [comments EXCEPT ![req[p].docId].content = req[p].message,
                                  ![req[p].docId].isEdited = TRUE]
  /\ Answer(p, 200, "Comentario actualizado exitosamente")
  /\ UNCHANGED <<users, posts, likes, nOps, toggles, now>>

DeleteCommentStart(p, u, id) == CommentWriteStart(p, "deleteComment", u, id, "none")

\* deleteComment: comment.isActive = false; comment.save()
DeleteCommentSave(p) ==
  /\ At(p, "deleteComment", "save")
  /\ comments' = [comments EXCEPT ![req[p].docId].isActive = FALSE]
  /\ Set(p, [req[p] EXCEPT !.pc = "inc"])
  /\ UNCHANGED <<users, posts, likes, nOps, toggles, now>>

\* deleteComment: $inc commentsCount by -1, then the response
DeleteCommentInc(p) ==
  /\ At(p, "deleteComment", "inc")
  /\ posts' = IncComments(req[p].targetId, -1)
  /\ Answer(p, 200, "Comentario eliminado exitosamente")
  /\ UNCHANGED <<users, comments, likes, nOps, toggles, now>>


\* ------------------------------------------------------ authentication
\* process.env.JWT_EXPIRE ('24h'), in clock ticks
AccessTTL == 1

\* jwt.sign({ id }, process.env.JWT_SECRET, { expiresIn }) at time iat
AccessToken(id, iat) ==
  [id |-> id, secret |-> "JWT_SECRET", exp |-> iat + AccessTTL]

\* tokens not signed with JWT_SECRET (forged, malformed), expired or not
ForgedTokens == {[id |-> 1, secret |-> "otro", exp |-> e] : e \in {0, MaxTime + AccessTTL}}

\* the Authorization headers a client can send: none, another scheme, or a
\* bearer token that is forged or was issued to a stored user up to now
Headers ==
  {[scheme |-> sc, token |-> t] : sc \in {"none", "Basic"}, t \in {AccessToken(1, 0)}}
  \cup {[scheme |-> "Bearer", token |-> t] :
          t \in ForgedTokens \cup {AccessToken(u, iat) : u \in IdsOf(users), iat \in 0..now}}

\* a verification that checks the signature and ignores the expiry
JwtVerifyNoExpiry(t) ==
  IF t.secret # "JWT_SECRET" THEN "JsonWebTokenError" ELSE "ok"

\* jwt.verify(token, process.env.JWT_SECRET): signature first, then expiry
JwtVerify(t) ==
  IF t.secret # "JWT_SECRET" THEN "JsonWebTokenError"
  ELSE IF now >= t.exp THEN "TokenExpiredError"
  ELSE "ok"

\* authenticate: the catch block answers every error of the try block,
\* whatever its name or message, with the same new error
AuthCatch(error) == "Token de autorización inválido"

\* a protected route: authenticate runs first; r holds the request's arguments
ProtectedStart(p, op, h, r) ==
  /\ CanStart(p)
  /\ h \in Headers
  /\ nOps' = nOps + 1
  /\ LET q == [r EXCEPT !.op = op]
     IN  IF h.scheme # "Bearer"
         THEN Set(p, [q EXCEPT !.pc = "done", !.status = 401,
                !.message = "Acceso denegado. No se proporcionó token de autorización"])
         ELSE IF JwtVerify(h.token) # "ok"
         THEN Set(p, [q EXCEPT !.pc = "done", !.status = 401,
                               !.error = JwtVerify(h.token),
                               !.message = AuthCatch(JwtVerify(h.token))])
         ELSE Set(p, [q EXCEPT !.pc = "authUser", !.userId = h.token.id])
  /\ UNCHANGED <<users, posts, comments, likes, toggles, now>>

\* authenticate: User.findById(decoded.id); the user must exist and be active,
\* then req.user is set and next() runs the route's handler
AuthFindUser(p) ==
  /\ req[p].pc = "authUser"
  /\ IF ~Exists(users, req[p].userId)
     THEN Set(p, [req[p] EXCEPT !.pc = "done", !.status = 401,
                  !.error = "Usuario no encontrado",
                  !.message = AuthCatch("Usuario no encontrado")])
     ELSE IF ~users[req[p].userId].isActive
     THEN Set(p, [req[p] EXCEPT !.pc = "done", !.status = 401,
                  !.error = "Cuenta de usuario inactiva",
                  !.message = AuthCatch("Cuenta de usuario inactiva")])
     ELSE Set(p, [req[p] EXCEPT !.reqUser = req[p].userId, !.pc = "handler"])
  /\ UNCHANGED <<users, posts, comments, likes, nOps, toggles, now>>

\* GET /api/users/profile
GetUserProfileStart(p, h) == ProtectedStart(p, "getUserProfile", h, Idle)

GetUserProfile(p) ==
  /\ At(p, "getUserProfile", "handler")
  /\ Answer(p, 200, "Perfil obtenido exitosamente")
  /\ UNCHANGED <<users, posts, comments, likes, nOps, toggles, now>>

\* time passes
Tick ==
  /\ now < MaxTime
  /\ now' = now + 1
  /\ UNCHANGED <<users, posts, comments, likes, req, nOps, toggles>>


\* -------------------------------------------------------------- posts
PostContents == {"hola", "chau"}
ImageUrls == {"https://x.io/a.png"}

\* post creations in flight that have not yet written their document
PendingPosts == Cardinality({q \in Procs : req[q].op = "createPost" /\ ~Free(q)})

\* POST /api/posts: authenticate, then validateCreatePost
CreatePostStart(p, h, content, imageUrl) ==
  /\ Len(posts) + PendingPosts < MaxNewPosts
  /\ content \in PostContents \cup {""}
  /\ imageUrl \in ImageUrls \cup {"none"}
  /\ ProtectedStart(p, "createPost", h,
       [Idle EXCEPT !.content = content, !.imageUrl = imageUrl])

\* createPost: Post.create for req.user, then the response
CreatePost(p) ==
  /\ At(p, "createPost", "handler")
  /\ IF req[p].content = ""
     THEN /\ posts' = posts
          /\ Answer(p, 400, "Errores de validación")
     ELSE /\ posts' = Append(posts, NewPost(req[p].reqUser, req[p].content,
                                            req[p].imageUrl))
          /\ Set(p, [req[p] EXCEPT !.pc = "done", !.status = 201,
                       !.docId = Len(posts) + 1,
                       !.message = "Post creado exitosamente"])
  /\ UNCHANGED <<users, comments, likes, nOps, toggles, now>>

\* PUT /api/posts/:id: authenticate, validatePostId, validateUpdatePost;
\* "none" is a field the body does not carry, "" a content the body empties
UpdatePostStart(p, h, id, content, imageUrl) ==
  /\ id \in 1..(Len(posts) + 1)
  /\ content \in PostContents \cup {"none", ""}
  /\ imageUrl \in ImageUrls \cup {"none"}
  /\ ProtectedStart(p, "updatePost", h,
       [Idle EXCEPT !.docId = id, !.content = content, !.imageUrl = imageUrl])

\* fields of a post that a request body may name besides content and imageUrl,
\* and the values such a body gives them
ExtraFields == {"userId", "isActive", "likesCount", "commentsCount"}

ExtraBody == [userId |-> 2, isActive |-> FALSE, likesCount |-> 7, commentsCount |-> 7]

\* PUT /api/posts/:id with a body that also names the field extra
UpdatePostBodyStart(p, h, id, content, imageUrl, extra) ==
  /\ id \in 1..(Len(posts) + 1)
  /\ content \in PostContents \cup {"none"}
  /\ imageUrl \in ImageUrls \cup {"none"}
  /\ extra \in ExtraFields
  /\ ProtectedStart(p, "updatePost", h,
       [Idle EXCEPT !.docId = id, !.content = content, !.imageUrl = imageUrl,
                    !.extra = extra])

\* an update that copies every field of the body
AllowedFieldAny(field) == field # "none"

\* updatePost: allowedFields, the fields of the body that are merged
AllowedField(field) == field \in {"content", "imageUrl", "tags"}

\* Object.assign(post, updateFields) for a field besides content and imageUrl
AssignExtra(post, field) ==
  IF ~AllowedField(field) THEN post
  ELSE IF field = "userId" THEN [post EXCEPT !.userId = ExtraBody.userId]
  ELSE IF field = "isActive" THEN [post EXCEPT !.isActive = ExtraBody.isActive]
  ELSE IF field = "likesCount" THEN [post EXCEPT !.likesCount = ExtraBody.likesCount]
  ELSE IF field = "commentsCount"
  THEN [post EXCEPT !.commentsCount = ExtraBody.commentsCount]
  ELSE post

\* DELETE /api/posts/:id: authenticate, validatePostId
DeletePostStart(p, h, id) ==
  /\ id \in 1..(Len(posts) + 1)
  /\ ProtectedStart(p, "deletePost", h, [Idle EXCEPT !.docId = id])

\* validateUpdatePost: a content that is given has between 1 and 2000
\* characters after trim
ValidUpdatePost(content) == content # ""

\* updatePost / deletePost: the body validators of an update, then
\* Post.findById, the ownership check against req.user, and for an update
\* the check that some field is given
PostWriteFind(p) ==
  /\ req[p].op \in {"updatePost", "deletePost"}
  /\ req[p].pc = "handler"
  /\ LET id == req[p].docId
     IN  IF req[p].op = "updatePost" /\ ~ValidUpdatePost(req[p].content)
         THEN Answer(p, 400, "Errores de validación")
         ELSE IF ~Exists(posts, id)
         THEN Answer(p, 404, "Post no encontrado")
         ELSE IF posts[id].userId # req[p].reqUser
         THEN Answer(p, 403, IF req[p].op = "updatePost"
                             THEN "No tienes permisos para actualizar este post"
                             ELSE "No tienes permisos para eliminar este post")
         ELSE IF /\ req[p].op = "updatePost"
                 /\ req[p].content = "none"
                 /\ req[p].imageUrl = "none"
         THEN Answer(p, 400, "Debe proporcionar al menos un campo para actualizar")
         ELSE Set(p, [req[p] EXCEPT !.pc = "save",
                        !.docContent = posts[id].content,
                        !.docImageUrl = posts[id].imageUrl,
                        !.docContentType = posts[id].contentType])
  /\ UNCHANGED <<users, posts, comments, likes, nOps, toggles, now>>

\* updatePost: Object.assign on the loaded document, pre('save') recomputes
\* contentType, post.save() writes the paths that changed
UpdatePostSave(p) ==
  /\ At(p, "updatePost", "save")
  /\ LET id == req[p].docId
         content == IF req[p].content = "none" THEN req[p].docContent
                    ELSE req[p].content
         imageUrl == IF req[p].imageUrl = "none" THEN req[p].docImageUrl
                     ELSE req[p].imageUrl
         contentType == ContentTypeOf(content, imageUrl)
         saved == [posts[id] EXCEPT
           !.content = IF content # req[p].docContent THEN content ELSE @,
           !.imageUrl = IF imageUrl # req[p].docImageUrl THEN imageUrl ELSE @,
           !.contentType = IF contentType # req[p].docContentType
                           THEN contentType ELSE @]
     IN  posts' = [posts EXCEPT ![id] = AssignExtra(saved, req[p].extra)]
  /\ Answer(p, 200, "Post actualizado exitosamente")
  /\ UNCHANGED <<users, comments, likes, nOps, toggles, now>>

\* a soft-delete that cascades to the comments of the post
DeletePostSaveCascade(p) ==
  /\ At(p, "deletePost", "save")
  /\ posts' = [posts EXCEPT ![req[p].docId].isActive = FALSE]
  /\ comments' = [c \in 1..Len(comments) |->
                   IF comments[c].postId = req[p].docId
                   THEN [comments[c] EXCEPT !.isActive = FALSE]
                   ELSE comments[c]]
  /\ Answer(p, 200, "Post eliminado exitosamente")
  /\ UNCHANGED <<users, likes, nOps, toggles, now>>

\* deletePost: post.isActive = false; post.save()
DeletePostSave(p) ==
  /\ At(p, "deletePost", "save")
  /\ posts' = [posts EXCEPT ![req[p].docId].isActive = FALSE]
  /\ Answer(p, 200, "Post eliminado exitosamente")
  /\ UNCHANGED <<users, comments, likes, nOps, toggles, now>>

\* ------------------------------------------------------ read endpoints
Pages == {1, 2}
Limits == {1, 10}
SearchTerms == {"", "hola"}

Min(a, b) == IF a < b THEN a ELSE b

\* .sort({ createdAt: -1 }): newest first; ids are handed out in creation order
RECURSIVE Desc(_)
Desc(S) ==
  IF S = {} THEN <<>>
  ELSE LET m == CHOOSE x \in S : \A y \in S : y <= x
       IN  <<m>> \o Desc(S \ {m})

\* .skip((page - 1) * limit).limit(limit)
Page(seq, page, limit) ==
  SubSeq(seq, (page - 1) * limit + 1, Min(Len(seq), page * limit))

\* { $regex: searchTerm, $options: 'i' } on the contents of the model
Matches(content, q) == content = q

\* Math.ceil(total / limit)
Ceil(total, limit) == (total + limit - 1) \div limit

\* hasNextPage: page < totalPages
HasNextPageOrLast(page, totalPages) == page <= totalPages

HasNextPage(page, totalPages) == page < totalPages

\* hasPrevPage: page > 1
HasPrevPage(page) == page > 1

\* parseInt(req.query.page) || 1 and parseInt(req.query.limit) || 10, on the
\* raw query strings of the model; "none" is a parameter that is not sent
ParseInt(raw, default) ==
  CASE raw = "1" -> 1
    [] raw = "2" -> 2
    [] raw = "1000" -> 1000
    [] OTHER -> default

RawPages == {"none", "abc", "2"}
RawLimits == {"1", "abc", "1000"}
SortFields == {"createdAt", "password"}

\* what validateQueryParams accepts: page an integer >= 1, limit an integer
\* in 1..100, sortBy one of the allowed fields
ValidQuery(rawPage, rawLimit, sortBy) ==
  /\ rawPage \in {"none", "1", "2"}
  /\ rawLimit \in {"none", "1"}
  /\ sortBy \in {"none", "createdAt"}

UserLists == {"getAllUsers"}
PostLists == {"getAllPosts", "getRecentPosts", "searchPosts", "getPostsByUser"}
CommentLists == {"getAllComments", "getCommentsByPost", "getCommentsByUser"}

\* the filter each Post.find is given
PostFilter(r) ==
  {i \in IdsOf(posts) :
     /\ posts[i].isActive
     /\ r.op = "searchPosts" => Matches(posts[i].content, r.q)
     /\ r.op = "getPostsByUser" => posts[i].userId = r.docId}

\* the filter each Comment.find is given
CommentFilter(r) ==
  {i \in IdsOf(comments) :
     /\ comments[i].isActive
     /\ r.op = "getCommentsByPost" =>
          (comments[i].postId = r.docId /\ comments[i].parentCommentId = NoId)
     /\ r.op = "getCommentsByUser" => comments[i].userId = r.docId}

\* getAllUsers: filters = { isActive: true }
UserFilter(r) == {u \in IdsOf(users) : users[u].isActive}

\* the number of documents the filter of the request matches
Matching(r) ==
  IF r.op \in UserLists THEN Cardinality(UserFilter(r))
  ELSE IF r.op \in PostLists THEN Cardinality(PostFilter(r))
  ELSE Cardinality(CommentFilter(r))

\* .populate('post', 'content userId'): the post of each comment, whatever
\* its isActive
PopulatePost(ids) == [k \in 1..Len(ids) |-> comments[ids[k]].postId]

\* a public GET arrives: validateQueryParams and the id validators pass
ReadStart(p, r) ==
  /\ CanStart(p)
  /\ nOps' = nOps + 1
  /\ Set(p, r)
  /\ UNCHANGED <<users, posts, comments, likes, toggles, now>>

ListRequest(op, pc, id, page, limit) ==
  [Idle EXCEPT !.op = op, !.pc = pc, !.docId = id, !.page = page, !.limit = limit]

\* GET /api/users: the route mounts no validator, getAllUsers reads the raw
\* query; flag records a query that validateQueryParams would refuse
GetAllUsersStart(p, rawPage, rawLimit, sortBy) ==
  /\ rawPage \in RawPages
  /\ rawLimit \in RawLimits
  /\ sortBy \in SortFields
  /\ ReadStart(p, [ListRequest("getAllUsers", "find", NoId,
                               ParseInt(rawPage, 1), ParseInt(rawLimit, 10))
                     EXCEPT !.q = sortBy,
                            !.flag = ~ValidQuery(rawPage, rawLimit, sortBy)])

\* GET /api/posts
GetAllPostsStart(p, page, limit) ==
  ReadStart(p, ListRequest("getAllPosts", "find", NoId, page, limit))

\* GET /api/posts/feed/recent
GetRecentPostsStart(p, page, limit) ==
  ReadStart(p, ListRequest("getRecentPosts", "find", NoId, page, limit))

\* GET /api/posts/search?q=: an empty term is refused
SearchPostsStart(p, q, page, limit) ==
  /\ q \in SearchTerms
  /\ ReadStart(p, IF q = ""
       THEN [Idle EXCEPT !.op = "searchPosts", !.pc = "done", !.status = 400,
                         !.message = "Debe proporcionar un término de búsqueda"]
       ELSE [ListRequest("searchPosts", "find", NoId, page, limit) EXCEPT !.q = q])

\* GET /api/posts/user/:userId
GetPostsByUserStart(p, userId, page, limit) ==
  ReadStart(p, ListRequest("getPostsByUser", "findUser", userId, page, limit))

\* GET /api/comments
GetAllCommentsStart(p, page, limit) ==
  ReadStart(p, ListRequest("getAllComments", "find", NoId, page, limit))

\* GET /api/comments/post/:postId
GetCommentsByPostStart(p, postId, page, limit) ==
  ReadStart(p, ListRequest("getCommentsByPost", "findOwner", postId, page, limit))

\* GET /api/comments/user/:userId
GetCommentsByUserStart(p, userId, page, limit) ==
  ReadStart(p, ListRequest("getCommentsByUser", "findUser", userId, page, limit))

\* GET /api/posts/:id
GetPostByIdStart(p, id) ==
  ReadStart(p, [Idle EXCEPT !.op = "getPostById", !.pc = "findById", !.docId = id])

\* GET /api/comments/:id
GetCommentByIdStart(p, id) ==
  ReadStart(p, [Idle EXCEPT !.op = "getCommentById", !.pc = "findById", !.docId = id])

\* getPostsByUser / getCommentsByUser: the user must exist and be active
ListFindUser(p) ==
  /\ req[p].op \in {"getPostsByUser", "getCommentsByUser"}
  /\ req[p].pc = "findUser"
  /\ IF Exists(users, req[p].docId) /\ users[req[p].docId].isActive
     THEN Set(p, [req[p] EXCEPT !.pc = "find"])
     ELSE Answer(p, 404, "Usuario no encontrado")
  /\ UNCHANGED <<users, posts, comments, likes, nOps, toggles, now>>

\* getCommentsByPost: the post must exist and be active
ListFindPost(p) ==
  /\ At(p, "getCommentsByPost", "findOwner")
  /\ IF TargetActive("Post", req[p].docId)
     THEN Set(p, [req[p] EXCEPT !.pc = "find"])
     ELSE Answer(p, 404, "Post no encontrado")
  /\ UNCHANGED <<users, posts, comments, likes, nOps, toggles, now>>

\* the list handlers: find(filters).populate().sort().skip().limit()
ListFind(p) ==
  /\ req[p].op \in UserLists \cup PostLists \cup CommentLists
  /\ req[p].pc = "find"
  /\ LET r == req[p]
         found == IF r.op \in UserLists
                  THEN Page(Desc(UserFilter(r)), r.page, r.limit)
                  ELSE IF r.op \in PostLists
                  THEN Page(Desc(PostFilter(r)), r.page, r.limit)
                  ELSE Page(Desc(CommentFilter(r)), r.page, r.limit)
     IN  Set(p, [r EXCEPT !.pc = "count", !.result = found,
                   !.nested = IF r.op \in {"getAllComments", "getCommentsByUser"}
                              THEN PopulatePost(found) ELSE <<>>])
  /\ UNCHANGED <<users, posts, comments, likes, nOps, toggles, now>>

\* the list handlers: countDocuments(filters), then the response
ListCount(p) ==
  /\ req[p].op \in UserLists \cup PostLists \cup CommentLists
  /\ req[p].pc = "count"
  /\ LET r == req[p]
         total == Matching(r)
         totalPages == Ceil(total, r.limit)
     IN  Set(p, [r EXCEPT !.pc = "done", !.status = 200,
                   !.message = "obtenidos exitosamente",
                   !.total = total, !.totalPages = totalPages,
                   !.hasNextPage = HasNextPage(r.page, totalPages),
                   !.hasPrevPage = HasPrevPage(r.page)])
  /\ UNCHANGED <<users, posts, comments, likes, nOps, toggles, now>>

\* getPostById: findById, 404 when missing or inactive
GetPostById(p) ==
  /\ At(p, "getPostById", "findById")
  /\ LET id == req[p].docId
     IN  IF ~Exists(posts, id) THEN Answer(p, 404, "Post no encontrado")
         ELSE IF ~posts[id].isActive THEN Answer(p, 404, "Post no disponible")
         ELSE Set(p, [req[p] EXCEPT !.pc = "done", !.status = 200,
                        !.result = <<id>>,
                        !.message = "Post obtenido exitosamente"])
  /\ UNCHANGED <<users, posts, comments, likes, nOps, toggles, now>>

\* getCommentById: findById with its post populated, 404 when missing or
\* inactive
GetCommentById(p) ==
  /\ At(p, "getCommentById", "findById")
  /\ LET id == req[p].docId
     IN  IF ~Exists(comments, id) THEN Answer(p, 404, "Comentario no encontrado")
         ELSE IF ~comments[id].isActive
         THEN Answer(p, 404, "Comentario no disponible")
         ELSE Set(p, [req[p] EXCEPT !.pc = "done", !.status = 200,
                        !.result = <<id>>, !.nested = PopulatePost(<<id>>),
                        !.message = "Comentario obtenido exitosamente"])
  /\ UNCHANGED <<users, posts, comments, likes, nOps, toggles, now>>

\* ------------------------------------------------------------- users
InputUsernames == {"ana", "bob"}
InputEmails == {"ana@x.io", "ANA@x.io", "bob@x.io"}
InputPasswords == {"Password123", "abc"}

\* normalizeEmail() of the validators and lowercase: true of the schema
Lower(email) == IF email = "ANA@x.io" THEN "ana@x.io" ELSE email

\* validateCreateUser: length and character classes of the password
StrongPassword(password) == password # "abc"

\* User.findOne({ username }) / User.findOne({ email }), optionally excluding
\* one id: some stored user has the value
UsernameTaken(username, except) ==
  \E u \in IdsOf(users) : u # except /\ users[u].username = username

EmailTaken(email, except) ==
  \E u \in IdsOf(users) : u # except /\ users[u].email = Lower(email)

\* the unique indexes on username and email admit the write
UserIndexOff(username, email, except) == TRUE

UserIndexAdmits(username, email, except) ==
  ~UsernameTaken(username, except) /\ ~EmailTaken(email, except)

\* E11000 as errorHandler words it: the first duplicate key
DuplicateMessage(username, except) ==
  IF UsernameTaken(username, except)
  THEN "Ya existe un registro con username"
  ELSE "Ya existe un registro con email"

\* user creations in flight that have not yet written their document
PendingUsers ==
  Cardinality({q \in Procs : req[q].op \in {"createUser", "oauthGoogle", "oauthGitHub"}
                             /\ ~Free(q) /\ req[q].pc # "lastLogin"})

\* POST /api/users: validateCreateUser, the username chain
CreateUserStart(p, username, email, password) ==
  /\ CanStart(p)
  /\ Len(users) + PendingUsers < MaxUsers
  /\ username \in InputUsernames
  /\ email \in InputEmails
  /\ password \in InputPasswords
  /\ nOps' = nOps + 1
  /\ Set(p, [Idle EXCEPT !.op = "createUser", !.pc = "checkEmail",
               !.username = username, !.email = Lower(email),
               !.password = password,
               !.flag = UsernameTaken(username, NoId)])
  /\ UNCHANGED <<users, posts, comments, likes, toggles, now>>

\* validateCreateUser: the email chain, the password chain, then
\* handleValidationErrors
CreateUserCheckEmail(p) ==
  /\ At(p, "createUser", "checkEmail")
  /\ IF \/ req[p].flag
        \/ EmailTaken(req[p].email, NoId)
        \/ ~StrongPassword(req[p].password)
     THEN Answer(p, 400, "Errores de validación")
     ELSE Set(p, [req[p] EXCEPT !.pc = "insert", !.flag = FALSE])
  /\ UNCHANGED <<users, posts, comments, likes, nOps, toggles, now>>

\* createUser: User.create (pre-save hash, insert under the unique indexes),
\* then the tokens and the response; E11000 becomes a 400 in errorHandler
CreateUserInsert(p) ==
  /\ At(p, "createUser", "insert")
  /\ IF UserIndexAdmits(req[p].username, req[p].email, NoId)
     THEN /\ users' = Append(users, NewUser(req[p].username, req[p].email,
                                            Hash(req[p].password), "none", "none"))
          /\ Set(p, [req[p] EXCEPT !.pc = "done", !.status = 201,
                       !.docId = Len(users) + 1,
                       !.message = "Usuario creado exitosamente"])
     ELSE /\ users' = users
          /\ Answer(p, 400, DuplicateMessage(req[p].username, NoId))
  /\ UNCHANGED <<posts, comments, likes, nOps, toggles, now>>

\* PUT /api/users/:id: authenticate, then validateUpdateUser's username chain
UpdateUserStart(p, h, id, username, email) ==
  /\ id \in 1..(Len(users) + 1)
  /\ username \in InputUsernames \cup {"none"}
  /\ email \in InputEmails \cup {"none"}
  /\ ProtectedStart(p, "updateUser", h,
       [Idle EXCEPT !.docId = id, !.username = username,
                    !.email = IF email = "none" THEN "none" ELSE Lower(email)])

UpdateUserCheckUsername(p) ==
  /\ At(p, "updateUser", "handler")
  /\ Set(p, [req[p] EXCEPT !.pc = "checkEmail",
               !.flag = /\ req[p].username # "none"
                        /\ UsernameTaken(req[p].username, req[p].docId)])
  /\ UNCHANGED <<users, posts, comments, likes, nOps, toggles, now>>

\* validateUpdateUser's email chain and handleValidationErrors, then the
\* controller's ownership check and its check for an empty update
UpdateUserCheckEmail(p) ==
  /\ At(p, "updateUser", "checkEmail")
  /\ IF \/ req[p].flag
        \/ req[p].email # "none" /\ EmailTaken(req[p].email, req[p].docId)
     THEN Answer(p, 400, "Errores de validación")
     ELSE IF req[p].reqUser # req[p].docId
     THEN Answer(p, 403, "No tienes permisos para actualizar este usuario")
     ELSE IF req[p].username = "none" /\ req[p].email = "none"
     THEN Answer(p, 400, "Debe proporcionar al menos un campo para actualizar")
     ELSE Set(p, [req[p] EXCEPT !.pc = "update", !.flag = FALSE])
  /\ UNCHANGED <<users, posts, comments, likes, nOps, toggles, now>>

\* updateUser: User.findByIdAndUpdate under the unique indexes
UpdateUserWrite(p) ==
  /\ At(p, "updateUser", "update")
  /\ LET id == req[p].docId
         username == IF req[p].username = "none" THEN users[id].username
                     ELSE req[p].username
         email == IF req[p].email = "none" THEN users[id].email ELSE req[p].email
     IN  IF UserIndexAdmits(username, email, id)
         THEN /\ users' = [users EXCEPT ![id].username = username,
                                        ![id].email = email]
              /\ Answer(p, 200, "Usuario actualizado exitosamente")
         ELSE /\ users' = users
              /\ Answer(p, 400, DuplicateMessage(username, id))
  /\ UNCHANGED <<posts, comments, likes, nOps, toggles, now>>

\* DELETE /api/users/:id: authenticate, then the ownership check and findById
DeleteUserStart(p, h, id) ==
  /\ id \in 1..(Len(users) + 1)
  /\ ProtectedStart(p, "deleteUser", h, [Idle EXCEPT !.docId = id])

DeleteUserFind(p) ==
  /\ At(p, "deleteUser", "handler")
  /\ IF req[p].reqUser # req[p].docId
     THEN Answer(p, 403, "No tienes permisos para eliminar este usuario")
     ELSE IF ~Exists(users, req[p].docId)
     THEN Answer(p, 404, "Usuario no encontrado")
     ELSE Set(p, [req[p] EXCEPT !.pc = "save"])
  /\ UNCHANGED <<users, posts, comments, likes, nOps, toggles, now>>

\* deleteUser: user.isActive = false; user.save()
DeleteUserSave(p) ==
  /\ At(p, "deleteUser", "save")
  /\ users' = [users EXCEPT ![req[p].docId].isActive = FALSE]
  /\ Answer(p, 200, "Usuario eliminado exitosamente")
  /\ UNCHANGED <<posts, comments, likes, nOps, toggles, now>>

\* User.findOne({ $or: [{ email }, { username }] }): the first match
FindByLogin(emailOrUsername) ==
  LET hits == {u \in IdsOf(users) : \/ users[u].email = Lower(emailOrUsername)
                                    \/ users[u].username = emailOrUsername}
  IN  IF hits = {} THEN NoId ELSE CHOOSE u \in hits : \A v \in hits : u <= v

\* POST /api/users/login: validateLogin, findOne, exists and active
LoginUserStart(p, emailOrUsername, password) ==
  /\ CanStart(p)
  /\ emailOrUsername \in InputUsernames \cup InputEmails
  /\ password \in {"Password123", "Otra456789"}
  /\ nOps' = nOps + 1
  /\ LET r == [Idle EXCEPT !.op = "loginUser", !.username = emailOrUsername,
                           !.password = password]
         u == FindByLogin(emailOrUsername)
     IN  IF u = NoId
         THEN Set(p, [r EXCEPT !.pc = "done", !.status = 401,
                               !.message = "Credenciales inválidas"])
         ELSE IF ~users[u].isActive
         THEN Set(p, [r EXCEPT !.pc = "done", !.status = 401, !.docId = u,
                               !.message = "Cuenta de usuario inactiva"])
         ELSE Set(p, [r EXCEPT !.pc = "compare", !.docId = u])
  /\ UNCHANGED <<users, posts, comments, likes, toggles, now>>

\* userSchema.methods.comparePassword: bcrypt.compare(candidate, this.password)
\* rejects with "Illegal arguments" when the hash is not a string
ComparePassword(candidate, hash) ==
  IF hash = "none" THEN "Illegal arguments: string, undefined"
  ELSE IF hash = Hash(candidate) THEN "match"
  ELSE "mismatch"

\* loginUser: comparePassword; a mismatch is a 401, a thrown error reaches
\* errorHandler, which answers 500
LoginUserCompare(p) ==
  /\ At(p, "loginUser", "compare")
  /\ LET c == ComparePassword(req[p].password, users[req[p].docId].password)
     IN  IF c = "match" THEN Set(p, [req[p] EXCEPT !.pc = "save"])
         ELSE IF c = "mismatch" THEN Answer(p, 401, "Credenciales inválidas")
         ELSE Answer(p, 500, c)
  /\ UNCHANGED <<users, posts, comments, likes, nOps, toggles, now>>

\* loginUser: user.updateLastLogin(), generateTokens, the response
LoginUserSave(p) ==
  /\ At(p, "loginUser", "save")
  /\ users' = [users EXCEPT ![req[p].docId].lastLogin = now]
  /\ Answer(p, 200, "Login exitoso")
  /\ UNCHANGED <<posts, comments, likes, nOps, toggles, now>>


\* ---------------------------------------------------- change password
Passwords == {"Password123", "Otra456789"}

\* validateChangePassword: currentPassword not empty, newPassword strong and
\* different from currentPassword, confirmPassword equal to newPassword
ChangePasswordValidSame(currentPassword, newPassword, confirmPassword) ==
  /\ StrongPassword(newPassword)
  /\ confirmPassword = newPassword

ChangePasswordValid(currentPassword, newPassword, confirmPassword) ==
  /\ StrongPassword(newPassword)
  /\ newPassword # currentPassword
  /\ confirmPassword = newPassword

\* PUT /api/users/change-password: authenticate first
ChangePasswordStart(p, h, currentPassword, newPassword, confirmPassword) ==
  /\ currentPassword \in Passwords
  /\ newPassword \in Passwords \cup {"abc"}
  /\ confirmPassword \in Passwords
  /\ ProtectedStart(p, "changePassword", h,
       [Idle EXCEPT !.password = currentPassword, !.newPassword = newPassword,
                    !.confirmPassword = confirmPassword])

\* validateChangePassword, then changePassword's User.findById(req.user._id)
ChangePasswordFind(p) ==
  /\ At(p, "changePassword", "handler")
  /\ IF ~ChangePasswordValid(req[p].password, req[p].newPassword,
                             req[p].confirmPassword)
     THEN Answer(p, 400, "Errores de validación")
     ELSE Set(p, [req[p] EXCEPT !.pc = "compare", !.docId = req[p].reqUser])
  /\ UNCHANGED <<users, posts, comments, likes, nOps, toggles, now>>

\* changePassword: user.comparePassword(currentPassword) on the loaded user
ChangePasswordCompare(p) ==
  /\ At(p, "changePassword", "compare")
  /\ LET c == ComparePassword(req[p].password, users[req[p].docId].password)
     IN  IF c = "match" THEN Set(p, [req[p] EXCEPT !.pc = "save"])
         ELSE IF c = "mismatch" THEN Answer(p, 400, "Contraseña actual incorrecta")
         ELSE Answer(p, 500, c)
  /\ UNCHANGED <<users, posts, comments, likes, nOps, toggles, now>>

\* changePassword: user.password = newPassword; user.save() hashes it in
\* pre('save') and writes it
ChangePasswordSave(p) ==
  /\ At(p, "changePassword", "save")
  /\ users' = [users EXCEPT ![req[p].docId].password = Hash(req[p].newPassword)]
  /\ Answer(p, 200, "Contraseña cambiada exitosamente")
  /\ UNCHANGED <<posts, comments, likes, nOps, toggles, now>>


\* ------------------------------------------------------ refresh tokens
\* process.env.JWT_REFRESH_EXPIRE ('7d'), in clock ticks
RefreshTTL == 2

\* jwt.sign({ id, type: 'refresh' }, JWT_REFRESH_SECRET, { expiresIn })
RefreshToken(id, iat) ==
  [id |-> id, secret |-> "JWT_REFRESH_SECRET", exp |-> iat + RefreshTTL,
   type |-> "refresh"]

\* the tokens a caller can hand to refreshAccessToken: refresh tokens issued
\* up to now, the same without the refresh type, and forged ones
RefreshInputs ==
  {[RefreshToken(u, iat) EXCEPT !.type = ty, !.secret = sec] :
     u \in 1..(Len(users) + 1), iat \in 0..now, ty \in {"refresh", "none"},
     sec \in {"JWT_REFRESH_SECRET", "otro"}}

\* jwt.verify(refreshToken, JWT_REFRESH_SECRET), then the type check
RefreshVerify(t) ==
  IF t.secret # "JWT_REFRESH_SECRET" THEN "JsonWebTokenError"
  ELSE IF now >= t.exp THEN "TokenExpiredError"
  ELSE IF t.type # "refresh" THEN "Token inválido"
  ELSE "ok"

\* what the caller of asyncHandler(fn)(refreshToken) gets back: the wrapper
\* starts fn and returns nothing; fn's promise is only given .catch(next)
AsyncHandlerReturn == "undefined"

\* .catch(next) with the next the caller passed: refreshAccessToken is called
\* with one argument, so next is undefined and the catch itself throws
CatchNext == "TypeError: next is not a function"

\* refreshAccessToken(refreshToken) is called; jwt.verify and the type check
\* run at once, any failure is rethrown as 'Refresh token inválido'
RefreshStart(p, t) ==
  /\ CanStart(p)
  /\ t \in RefreshInputs
  /\ nOps' = nOps + 1
  /\ LET r == [Idle EXCEPT !.op = "refreshAccessToken", !.userId = t.id,
                           !.returned = AsyncHandlerReturn]
     IN  IF RefreshVerify(t) # "ok"
         THEN Set(p, [r EXCEPT !.pc = "done", !.error = CatchNext,
                               !.message = "Refresh token inválido"])
         ELSE Set(p, [r EXCEPT !.pc = "findUser"])
  /\ UNCHANGED <<users, posts, comments, likes, toggles, now>>

\* refreshAccessToken: User.findById(decoded.id), exists and active, then
\* jwt.sign of a new access token, which fn resolves to
RefreshFindUser(p) ==
  /\ At(p, "refreshAccessToken", "findUser")
  /\ IF Exists(users, req[p].userId) /\ users[req[p].userId].isActive
     THEN Set(p, [req[p] EXCEPT !.pc = "done", !.flag = TRUE,
                    !.message = "accessToken"])
     ELSE Set(p, [req[p] EXCEPT !.pc = "done", !.error = CatchNext,
                    !.message = "Refresh token inválido"])
  /\ UNCHANGED <<users, posts, comments, likes, nOps, toggles, now>>

\* process.env.JWT_REFRESH_SECRET as deployed: set to a secret of its own, or
\* not set
RefreshEnvs == {"JWT_REFRESH_SECRET", "undefined"}

\* process.env.JWT_REFRESH_SECRET || process.env.JWT_SECRET
RefreshSecret(env) == IF env = "undefined" THEN "JWT_SECRET" ELSE env

\* generateTokens(userId) at time iat: the access token carries { id }, the
\* refresh token { id, type: 'refresh' } signed with the refresh secret
GenerateTokens(id, iat, env) ==
  [accessToken |-> [id |-> id, secret |-> "JWT_SECRET", exp |-> iat + AccessTTL,
                    type |-> "undefined"],
   refreshToken |-> [id |-> id, secret |-> RefreshSecret(env),
                     exp |-> iat + RefreshTTL, type |-> "refresh"]]

\* the two tokens of a pair
TokenKinds == {"accessToken", "refreshToken"}

\* jwt.verify(refreshToken, JWT_REFRESH_SECRET || JWT_SECRET), then the check
\* of decoded.type
RefreshVerifyWith(t, env) ==
  IF t.secret # RefreshSecret(env) THEN "JsonWebTokenError"
  ELSE IF now >= t.exp THEN "TokenExpiredError"
  ELSE IF t.type # "refresh" THEN "Token inválido"
  ELSE "ok"

\* GET /api/users/profile with 'Bearer <token>', the token being one of the
\* pair generateTokens issued to user id at iat: authenticate verifies it
\* with JWT_SECRET and reads decoded.id, nothing else of the payload
AuthenticateWithStart(p, env, id, iat, kind) ==
  /\ CanStart(p)
  /\ env \in RefreshEnvs
  /\ id \in IdsOf(users)
  /\ iat \in 0..now
  /\ kind \in TokenKinds
  /\ nOps' = nOps + 1
  /\ LET t == GenerateTokens(id, iat, env)[kind]
         q == [Idle EXCEPT !.op = "getUserProfile", !.extra = kind, !.q = env]
     IN  IF JwtVerify(t) # "ok"
         THEN Set(p, [q EXCEPT !.pc = "done", !.status = 401,
                               !.error = JwtVerify(t),
                               !.message = AuthCatch(JwtVerify(t))])
         ELSE Set(p, [q EXCEPT !.pc = "authUser", !.userId = t.id])
  /\ UNCHANGED <<users, posts, comments, likes, toggles, now>>

\* refreshAccessToken(token), the token being one of the pair generateTokens
\* issued to user id at iat
RefreshWithStart(p, env, id, iat, kind) ==
  /\ CanStart(p)
  /\ env \in RefreshEnvs
  /\ id \in IdsOf(users)
  /\ iat \in 0..now
  /\ kind \in TokenKinds
  /\ nOps' = nOps + 1
  /\ LET t == GenerateTokens(id, iat, env)[kind]
         r == [Idle EXCEPT !.op = "refreshAccessToken", !.userId = t.id,
                           !.extra = kind, !.q = env,
                           !.returned = AsyncHandlerReturn]
     IN  IF RefreshVerifyWith(t, env) # "ok"
         THEN Set(p, [r EXCEPT !.pc = "done", !.error = CatchNext,
                               !.message = "Refresh token inválido"])
         ELSE Set(p, [r EXCEPT !.pc = "findUser"])
  /\ UNCHANGED <<users, posts, comments, likes, toggles, now>>

\* ------------------------------------------------------------- OAuth
OAuthEmails == {"ana@x.io", "eva@y.io"}
OAuthIds == {"g-1", "g-2"}

\* the username of a new OAuth user: local part of the email, "_", and the
\* last six digits of Date.now()
OAuthUsername(email) == IF email = "ana@x.io" THEN "ana_000001" ELSE "eva_000001"

\* the two strategies; a GitHub profile has a login and may have no email
OAuthOps == {"oauthGoogle", "oauthGitHub"}
GitHubIds == {"gh-1"}
GitHubEmails == {"ana@x.io", "none"}

OAuthProviderOf(op) == IF op = "oauthGoogle" THEN "google" ELSE "github"

\* username and email of the user either strategy creates
OAuthNewUsername(r) ==
  IF r.op = "oauthGoogle" THEN OAuthUsername(r.email) ELSE "gus_000001"

OAuthNewEmail(r) ==
  IF r.op = "oauthGitHub" /\ r.email = "none" THEN "gus@github.local"
  ELSE Lower(r.email)

\* User.findOne({ $or: [{ oauthId, oauthProvider }] }) without the email
FindByOAuthIdOnly(provider, oauthId, email) ==
  LET hits == {u \in IdsOf(users) :
                 users[u].oauthId = oauthId /\ users[u].oauthProvider = provider}
  IN  IF hits = {} THEN NoId ELSE CHOOSE u \in hits : \A v \in hits : u <= v

\* User.findOne({ $or: [{ oauthId, oauthProvider }, { email }] })
FindByOAuth(provider, oauthId, email) ==
  LET hits == {u \in IdsOf(users) :
                 \/ users[u].oauthId = oauthId /\ users[u].oauthProvider = provider
                 \/ users[u].email = Lower(email)}
  IN  IF hits = {} THEN NoId ELSE CHOOSE u \in hits : \A v \in hits : u <= v

\* GET /api/auth/google/callback: the strategy's verify callback, findOne
OAuthGoogleStart(p, oauthId, email) ==
  /\ CanStart(p)
  /\ Len(users) + PendingUsers < MaxUsers
  /\ oauthId \in OAuthIds
  /\ email \in OAuthEmails
  /\ nOps' = nOps + 1
  /\ LET r == [Idle EXCEPT !.op = "oauthGoogle", !.username = oauthId,
                           !.email = email]
         u == FindByOAuth("google", oauthId, email)
     IN  IF u = NoId THEN Set(p, [r EXCEPT !.pc = "create"])
         ELSE IF users[u].oauthId = "none"
         THEN Set(p, [r EXCEPT !.pc = "backfill", !.docId = u])
         ELSE Set(p, [r EXCEPT !.pc = "lastLogin", !.docId = u])
  /\ UNCHANGED <<users, posts, comments, likes, toggles, now>>

\* GET /api/auth/github/callback: the strategy's verify callback, findOne
OAuthGitHubStart(p, oauthId, email) ==
  /\ CanStart(p)
  /\ Len(users) + PendingUsers < MaxUsers
  /\ oauthId \in GitHubIds
  /\ email \in GitHubEmails
  /\ nOps' = nOps + 1
  /\ LET r == [Idle EXCEPT !.op = "oauthGitHub", !.username = oauthId,
                           !.email = email]
         u == FindByOAuth("github", oauthId, email)
     IN  IF u = NoId THEN Set(p, [r EXCEPT !.pc = "create"])
         ELSE IF users[u].oauthId = "none"
         THEN Set(p, [r EXCEPT !.pc = "backfill", !.docId = u])
         ELSE Set(p, [r EXCEPT !.pc = "lastLogin", !.docId = u])
  /\ UNCHANGED <<users, posts, comments, likes, toggles, now>>

\* verify callback: an existing user without oauthId gets it, user.save()
OAuthBackfill(p) ==
  /\ req[p].op \in OAuthOps
  /\ req[p].pc = "backfill"
  /\ users' = [users EXCEPT ![req[p].docId].oauthId = req[p].username,
                            ![req[p].docId].oauthProvider = OAuthProviderOf(req[p].op)]
  /\ Set(p, [req[p] EXCEPT !.pc = "lastLogin"])
  /\ UNCHANGED <<posts, comments, likes, nOps, toggles, now>>

\* verify callback: User.create without a password; an error is handed to
\* done(error), which passport passes on to errorHandler
OAuthCreate(p) ==
  /\ req[p].op \in OAuthOps
  /\ req[p].pc = "create"
  /\ IF UserIndexAdmits(OAuthNewUsername(req[p]), OAuthNewEmail(req[p]), NoId)
     THEN /\ users' = Append(users, NewUser(OAuthNewUsername(req[p]),
                                OAuthNewEmail(req[p]), "none",
                                OAuthProviderOf(req[p].op), req[p].username))
          /\ Set(p, [req[p] EXCEPT !.pc = "lastLogin", !.docId = Len(users) + 1])
     ELSE /\ users' = users
          /\ Answer(p, 400, DuplicateMessage(OAuthNewUsername(req[p]), NoId))
  /\ UNCHANGED <<posts, comments, likes, nOps, toggles, now>>

\* verify callback: user.updateLastLogin(), done(null, user), then
\* handleOAuthSuccess
OAuthLastLogin(p) ==
  /\ req[p].op \in OAuthOps
  /\ req[p].pc = "lastLogin"
  /\ users' = [users EXCEPT ![req[p].docId].lastLogin = now]
  /\ Answer(p, 200, "Autenticación OAuth completada exitosamente")
  /\ UNCHANGED <<posts, comments, likes, nOps, toggles, now>>

\* GET /api/auth/<provider>/callback when the user refused consent: passport
\* fails the attempt, failureRedirect leads to /api/auth/failure and
\* handleOAuthFailure redirects to the error page
OAuthDenied(p, op) ==
  /\ CanStart(p)
  /\ op \in OAuthOps
  /\ nOps' = nOps + 1
  /\ Set(p, [Idle EXCEPT !.op = op, !.pc = "done", !.status = 302,
                         !.message = "Error en la autenticación OAuth"])
  /\ UNCHANGED <<users, posts, comments, likes, toggles, now>>

\* ------------------------------------------------------ specifications
Usernames == <<"ana", "bob", "eva">>
Emails == <<"ana@x.io", "bob@x.io", "eva@x.io">>

\* the store as the test fixtures seed it: registered users and their posts,
\* no comments, no likes
SeedUsers ==
  [u \in 1..MaxUsers |->
     NewUser(Usernames[u], Emails[u], Hash("Password123"), "none", "none")]
SeedPosts == [i \in 1..MaxPosts |-> NewPost(((i - 1) % MaxUsers) + 1, "hola", "none")]

InitSeeded ==
  /\ NoHistory
  /\ users = SeedUsers
  /\ posts = SeedPosts
  /\ comments = <<>>
  /\ likes = <<>>
  /\ req = [p \in Procs |-> Idle]
  /\ nOps = 0
  /\ now = 0

\* requests arriving at the like endpoints
LikeStarts(p) ==
  \/ \E u \in ReqUsers, tt \in TargetTypes :
       \E tid \in TargetIds(tt) : ToggleLikeStart(p, u, tt, tid)
  \/ \E u \in ReqUsers, tt \in TargetTypes :
       \E tid \in TargetIds(tt) : CreateLikeStart(p, u, tt, tid)
  \/ \E u \in ReqUsers, id \in 1..(Len(likes) + 1) : DeleteLikeStart(p, u, id)

\* the like handlers resuming after a data-store call
LikeSteps(p) ==
  \/ LikeFindTarget(p)
  \/ ToggleLikeFindLike(p)
  \/ ToggleLikeSave(p)
  \/ ToggleLikeInc(p)
  \/ LikePreSave(p)
  \/ LikeInsert(p)
  \/ CreateLikeHasLiked(p)
  \/ DeleteLikeSave(p)
  \/ DeleteLikeInc(p)

\* requests arriving at the comment endpoints
CommentStarts(p) ==
  \/ \E u \in ReqUsers, pid \in 1..(Len(posts) + 1),
        parent \in 0..(Len(comments) + 1), content \in Contents \cup {""} :
       CreateCommentStart(p, u, pid, parent, content)
  \/ \E u \in ReqUsers, id \in 1..(Len(comments) + 1) : DeleteCommentStart(p, u, id)

CommentSteps(p) ==
  \/ CreateCommentFindPost(p)
  \/ CreateCommentFindParent(p)
  \/ CreateCommentCreate(p)
  \/ CreateCommentInc(p)
  \/ DeleteCommentSave(p)
  \/ DeleteCommentInc(p)

\* likes and comments, requests interleaved at every data-store call
NextEngage ==
  \E p \in Procs :
    \/ nOps < MaxOps /\ (LikeStarts(p) \/ CommentStarts(p))
    \/ LikeSteps(p)
    \/ CommentSteps(p)

SpecEngage == InitSeeded /\ [][NextEngage]_vars

\* createComment and deleteComment requests, each completed before the next
\* one arrives
NextCommentsSeq ==
  \/ /\ nOps < MaxSeqOps
     /\ \/ \E u \in ReqUsers, pid \in 1..(Len(posts) + 1),
              parent \in 0..(Len(comments) + 1), content \in Contents \cup {""} :
             CreateCommentStart(1, u, pid, parent, content)
        \/ \E u \in ReqUsers, id \in 1..(Len(comments) + 1) :
             DeleteCommentStart(1, u, id)
  \/ CreateCommentFindPost(1)
  \/ CreateCommentFindParent(1)
  \/ CreateCommentCreate(1)
  \/ CreateCommentInc(1)
  \/ DeleteCommentSave(1)
  \/ DeleteCommentInc(1)

SpecCommentsSeq == InitSeeded /\ [][NextCommentsSeq]_vars

\* the like endpoints alone, on a store that also holds a comment
InitLikes ==
  /\ NoHistory
  /\ users = SeedUsers
  /\ posts = [SeedPosts EXCEPT ![1].commentsCount = 1]
  /\ comments = <<NewComment(1, 1, "hola", NoId)>>
  /\ likes = <<>>
  /\ req = [p \in Procs |-> Idle]
  /\ nOps = 0
  /\ now = 0

NextLikes ==
  \E p \in Procs :
    \/ nOps < MaxOps /\ LikeStarts(p)
    \/ LikeSteps(p)

SpecLikes == InitLikes /\ [][NextLikes]_vars

\* a toggleLike or createLike request of a user who has no Like record for
\* the target and no other request for it in flight
FirstLikeStart(p, u, tt, tid) ==
  LET actor == IF u # NoId THEN u ELSE DefaultUser
  IN  /\ FindLike(actor, tt, tid) = NoId
      /\ \A q \in Procs :
           Free(q) \/ req[q].userId # actor \/ req[q].targetType # tt
                   \/ req[q].targetId # tid
      /\ \/ ToggleLikeStart(p, u, tt, tid)
         \/ CreateLikeStart(p, u, tt, tid)

\* first likes of different users, their requests interleaved
NextFirstLikes ==
  \E p \in Procs :
    \/ /\ nOps < MaxOps
       /\ \E u \in ReqUsers, tt \in TargetTypes :
            \E tid \in TargetIds(tt) : FirstLikeStart(p, u, tt, tid)
    \/ CreateLikeHasLiked(p)
    \/ LikeFindTarget(p)
    \/ ToggleLikeFindLike(p)
    \/ LikePreSave(p)
    \/ LikeInsert(p)

SpecFirstLikes == InitLikes /\ [][NextFirstLikes]_vars

\* the like endpoints, each request completed before the next one arrives
NextLikesSeq ==
  \/ nOps < MaxSeqOps /\ LikeStarts(1)
  \/ LikeSteps(1)

SpecLikesSeq == InitLikes /\ [][NextLikesSeq]_vars

\* toggleLike requests only, one after another, counted per (user, target)
NextToggleSeq ==
  \/ /\ nOps < MaxSeqOps
     /\ \E u \in ReqUsers, tt \in TargetTypes :
          \E tid \in TargetIds(tt) : ToggleLikeStart(1, u, tt, tid)
  \/ LikeFindTarget(1)
  \/ ToggleLikeFindLike(1)
  \/ ToggleLikeSave(1)
  \/ ToggleLikeInc(1)
  \/ LikePreSave(1)
  \/ LikeInsert(1)

SpecToggleSeq == InitLikes /\ [][NextToggleSeq]_vars

\* the empty store of a fresh deployment
InitEmpty ==
  /\ NoHistory
  /\ users = <<>>
  /\ posts = <<>>
  /\ comments = <<>>
  /\ likes = <<>>
  /\ req = [p \in Procs |-> Idle]
  /\ nOps = 0
  /\ now = 0

\* requests arriving at the user and auth endpoints
UserStarts(p) ==
  \/ \E username \in InputUsernames, email \in InputEmails, password \in InputPasswords :
       CreateUserStart(p, username, email, password)
  \/ \E x \in InputUsernames \cup InputEmails, password \in {"Password123", "Otra456789"} :
       LoginUserStart(p, x, password)
  \/ \E h \in Headers : GetUserProfileStart(p, h)
  \/ \E h \in Headers, id \in 1..(Len(users) + 1) : DeleteUserStart(p, h, id)
  \/ \E h \in Headers, id \in 1..(Len(users) + 1),
        username \in InputUsernames \cup {"none"}, email \in InputEmails \cup {"none"} :
       UpdateUserStart(p, h, id, username, email)
  \/ \E oauthId \in OAuthIds, email \in OAuthEmails : OAuthGoogleStart(p, oauthId, email)

UserSteps(p) ==
  \/ AuthFindUser(p)
  \/ GetUserProfile(p)
  \/ CreateUserCheckEmail(p)
  \/ CreateUserInsert(p)
  \/ UpdateUserCheckUsername(p)
  \/ UpdateUserCheckEmail(p)
  \/ UpdateUserWrite(p)
  \/ DeleteUserFind(p)
  \/ DeleteUserSave(p)
  \/ LoginUserCompare(p)
  \/ LoginUserSave(p)
  \/ OAuthBackfill(p)
  \/ OAuthCreate(p)
  \/ OAuthLastLogin(p)

\* registration, login and the protected user routes, requests interleaved
NextUsers ==
  \/ \E p \in Procs :
       \/ nOps < MaxOps /\ UserStarts(p)
       \/ UserSteps(p)
  \/ Tick

SpecUsers == InitEmpty /\ [][NextUsers]_vars

\* users registered, nothing posted yet
InitContent ==
  /\ NoHistory
  /\ users = SeedUsers
  /\ posts = <<>>
  /\ comments = <<>>
  /\ likes = <<>>
  /\ req = [p \in Procs |-> Idle]
  /\ nOps = 0
  /\ now = 0

\* requests arriving at the post endpoints that write
PostStarts(p) ==
  \/ \E h \in Headers, content \in PostContents \cup {""},
        imageUrl \in ImageUrls \cup {"none"} :
       CreatePostStart(p, h, content, imageUrl)
  \/ \E h \in Headers, id \in 1..(Len(posts) + 1),
        content \in PostContents \cup {"none", ""}, imageUrl \in ImageUrls \cup {"none"} :
       UpdatePostStart(p, h, id, content, imageUrl)
  \/ \E h \in Headers, id \in 1..(Len(posts) + 1) : DeletePostStart(p, h, id)

PostSteps(p) ==
  \/ AuthFindUser(p)
  \/ CreatePost(p)
  \/ PostWriteFind(p)
  \/ UpdatePostSave(p)
  \/ DeletePostSave(p)

\* requests arriving at the public GET endpoints of posts and comments
ReadStarts(p) ==
  \E page \in Pages, limit \in Limits :
    \/ \E rawPage \in RawPages, rawLimit \in RawLimits, sortBy \in SortFields :
         GetAllUsersStart(p, rawPage, rawLimit, sortBy)
    \/ GetAllPostsStart(p, page, limit)
    \/ GetRecentPostsStart(p, page, limit)
    \/ \E q \in SearchTerms : SearchPostsStart(p, q, page, limit)
    \/ \E userId \in 1..(Len(users) + 1) : GetPostsByUserStart(p, userId, page, limit)
    \/ GetAllCommentsStart(p, page, limit)
    \/ \E postId \in 1..(Len(posts) + 1) : GetCommentsByPostStart(p, postId, page, limit)
    \/ \E userId \in 1..(Len(users) + 1) : GetCommentsByUserStart(p, userId, page, limit)
    \/ \E id \in 1..(Len(posts) + 1) : GetPostByIdStart(p, id)
    \/ \E id \in 1..(Len(comments) + 1) : GetCommentByIdStart(p, id)

ReadSteps(p) ==
  \/ ListFindUser(p)
  \/ ListFindPost(p)
  \/ ListFind(p)
  \/ ListCount(p)
  \/ GetPostById(p)
  \/ GetCommentById(p)

\* requests arriving at the comment endpoints that change a comment
CommentWriteStarts(p) ==
  \/ \E u \in ReqUsers, id \in 1..(Len(comments) + 1), content \in {"", "editado"} :
       UpdateCommentStart(p, u, id, content)
  \/ \E u \in ReqUsers, id \in 1..(Len(comments) + 1) : DeleteCommentStart(p, u, id)

\* posts and comments written and read, each request completed before the
\* next one arrives
NextContentSeq ==
  \/ /\ nOps < MaxSeqOps
     /\ \/ PostStarts(1)
        \/ ReadStarts(1)
        \/ \E u \in ReqUsers, pid \in 1..(Len(posts) + 1),
              parent \in 0..(Len(comments) + 1), content \in Contents \cup {""} :
             CreateCommentStart(1, u, pid, parent, content)
        \/ CommentWriteStarts(1)
  \/ PostSteps(1)
  \/ ReadSteps(1)
  \/ CommentSteps(1)
  \/ UpdateCommentSave(1)

SpecContentSeq == InitContent /\ [][NextContentSeq]_vars

\* the headers that carry a token issued to a stored user
BearerHeaders == {h \in Headers : h.scheme = "Bearer" /\ h.token \notin ForgedTokens}

\* updates of a post interleaved with likes of it and comments on it
NextPostUpdate ==
  \E p \in Procs :
    \/ /\ nOps < MaxOps
       /\ \/ \E h \in BearerHeaders, id \in IdsOf(posts),
                imageUrl \in ImageUrls \cup {"none"}, extra \in ExtraFields :
               UpdatePostBodyStart(p, h, id, "chau", imageUrl, extra)
          \/ \E u \in IdsOf(users), tid \in IdsOf(posts) :
               ToggleLikeStart(p, u, "Post", tid)
          \/ \E u \in IdsOf(users), pid \in IdsOf(posts) :
               CreateCommentStart(p, u, pid, NoId, "hola")
    \/ AuthFindUser(p)
    \/ PostWriteFind(p)
    \/ UpdatePostSave(p)
    \/ LikeFindTarget(p)
    \/ ToggleLikeFindLike(p)
    \/ ToggleLikeSave(p)
    \/ ToggleLikeInc(p)
    \/ LikePreSave(p)
    \/ LikeInsert(p)
    \/ CreateCommentFindPost(p)
    \/ CreateCommentCreate(p)
    \/ CreateCommentInc(p)

SpecPostUpdate == InitLikes /\ [][NextPostUpdate]_vars

\* soft-deletes of a post interleaved with likes of it and by-id fetches of
\* its comments
NextPostDelete ==
  \E p \in Procs :
    \/ /\ nOps < MaxOps
       /\ \/ \E h \in Headers, id \in 1..(Len(posts) + 1) : DeletePostStart(p, h, id)
          \/ \E id \in 1..(Len(comments) + 1) : GetCommentByIdStart(p, id)
          \/ \E u \in IdsOf(users), tid \in IdsOf(posts) :
               ToggleLikeStart(p, u, "Post", tid)
    \/ AuthFindUser(p)
    \/ PostWriteFind(p)
    \/ DeletePostSave(p)
    \/ GetCommentById(p)
    \/ LikeFindTarget(p)
    \/ ToggleLikeFindLike(p)
    \/ ToggleLikeSave(p)
    \/ ToggleLikeInc(p)
    \/ LikePreSave(p)
    \/ LikeInsert(p)

SpecPostDelete == InitLikes /\ [][NextPostDelete]_vars

\* users registered with a password
InitUsers ==
  /\ NoHistory
  /\ users = SeedUsers
  /\ posts = <<>>
  /\ comments = <<>>
  /\ likes = <<>>
  /\ req = [p \in Procs |-> Idle]
  /\ nOps = 0
  /\ now = 0

\* password changes and logins, each request completed before the next
NextPasswordSeq ==
  \/ /\ nOps < MaxSeqOps
     /\ \/ \E h \in Headers, currentPassword \in Passwords,
              newPassword \in Passwords \cup {"abc"}, confirmPassword \in Passwords :
             ChangePasswordStart(1, h, currentPassword, newPassword, confirmPassword)
        \/ \E x \in InputUsernames \cup InputEmails, password \in Passwords :
             LoginUserStart(1, x, password)
  \/ AuthFindUser(1)
  \/ ChangePasswordFind(1)
  \/ ChangePasswordCompare(1)
  \/ ChangePasswordSave(1)
  \/ LoginUserCompare(1)
  \/ LoginUserSave(1)

SpecPasswordSeq == InitUsers /\ [][NextPasswordSeq]_vars

\* refreshAccessToken called while users are deactivated and time passes
NextRefresh ==
  \/ \E p \in Procs :
       \/ /\ nOps < MaxOps
          /\ \/ \E t \in RefreshInputs : RefreshStart(p, t)
             \/ \E h \in Headers, id \in 1..(Len(users) + 1) : DeleteUserStart(p, h, id)
       \/ RefreshFindUser(p)
       \/ AuthFindUser(p)
       \/ DeleteUserFind(p)
       \/ DeleteUserSave(p)
  \/ Tick

SpecRefresh == InitUsers /\ [][NextRefresh]_vars

\* the tokens of generateTokens presented to authenticate and to
\* refreshAccessToken, with and without a refresh secret of its own
NextTokens ==
  \/ \E p \in Procs :
       \/ /\ nOps < MaxOps
          /\ \E env \in RefreshEnvs, id \in IdsOf(users), iat \in 0..now,
                kind \in TokenKinds :
               \/ AuthenticateWithStart(p, env, id, iat, kind)
               \/ RefreshWithStart(p, env, id, iat, kind)
       \/ AuthFindUser(p)
       \/ GetUserProfile(p)
       \/ RefreshFindUser(p)
  \/ Tick

SpecTokens == InitUsers /\ [][NextTokens]_vars

\* protected requests (the profile, the deactivation of an account) arriving
\* while accounts are deactivated and time passes
NextAuth ==
  \/ \E p \in Procs :
       \/ /\ nOps < MaxOps
          /\ \/ \E h \in Headers : GetUserProfileStart(p, h)
             \/ \E h \in Headers, id \in 1..(Len(users) + 1) : DeleteUserStart(p, h, id)
       \/ AuthFindUser(p)
       \/ GetUserProfile(p)
       \/ DeleteUserFind(p)
       \/ DeleteUserSave(p)
  \/ Tick

SpecAuth == InitUsers /\ [][NextAuth]_vars

\* registrations and OAuth sign-ins, each completed before the next arrives
NextOAuthSeq ==
  \/ /\ nOps < MaxSeqOps
     /\ \/ \E username \in InputUsernames, email \in InputEmails,
              password \in InputPasswords :
             CreateUserStart(1, username, email, password)
        \/ \E oauthId \in OAuthIds, email \in OAuthEmails :
             OAuthGoogleStart(1, oauthId, email)
        \/ \E oauthId \in GitHubIds, email \in GitHubEmails :
             OAuthGitHubStart(1, oauthId, email)
  \/ CreateUserCheckEmail(1)
  \/ CreateUserInsert(1)
  \/ OAuthBackfill(1)
  \/ OAuthCreate(1)
  \/ OAuthLastLogin(1)
  \/ Tick

SpecOAuthSeq == InitEmpty /\ [][NextOAuthSeq]_vars

\* registrations and OAuth callbacks of both providers, requests interleaved
NextOAuth ==
  \/ \E p \in Procs :
       \/ /\ nOps < MaxOps
          /\ \/ \E username \in InputUsernames, email \in InputEmails,
                   password \in InputPasswords :
                  CreateUserStart(p, username, email, password)
             \/ \E oauthId \in OAuthIds, email \in OAuthEmails :
                  OAuthGoogleStart(p, oauthId, email)
             \/ \E oauthId \in GitHubIds, email \in GitHubEmails :
                  OAuthGitHubStart(p, oauthId, email)
             \/ \E op \in OAuthOps : OAuthDenied(p, op)
       \/ CreateUserCheckEmail(p)
       \/ CreateUserInsert(p)
       \/ OAuthBackfill(p)
       \/ OAuthCreate(p)
       \/ OAuthLastLogin(p)
  \/ Tick

SpecOAuth == InitEmpty /\ [][NextOAuth]_vars

\* accounts registered, deactivated and then signed in to, by password and
\* through both providers, each request completed before the next arrives
NextDeactivated ==
  \/ /\ nOps < MaxSeqOps
     /\ \/ \E username \in InputUsernames, email \in InputEmails,
              password \in InputPasswords :
             CreateUserStart(1, username, email, password)
        \/ \E h \in BearerHeaders, id \in IdsOf(users) : DeleteUserStart(1, h, id)
        \/ \E x \in InputUsernames \cup InputEmails, password \in Passwords :
             LoginUserStart(1, x, password)
        \/ \E oauthId \in OAuthIds, email \in OAuthEmails :
             OAuthGoogleStart(1, oauthId, email)
        \/ \E oauthId \in GitHubIds, email \in GitHubEmails :
             OAuthGitHubStart(1, oauthId, email)
  \/ CreateUserCheckEmail(1)
  \/ CreateUserInsert(1)
  \/ AuthFindUser(1)
  \/ DeleteUserFind(1)
  \/ DeleteUserSave(1)
  \/ LoginUserCompare(1)
  \/ LoginUserSave(1)
  \/ OAuthBackfill(1)
  \/ OAuthCreate(1)
  \/ OAuthLastLogin(1)

SpecDeactivated == InitEmpty /\ [][NextDeactivated]_vars

\* one registered user, one post of that user and one comment on it
InitOne ==
  /\ NoHistory
  /\ users = SubSeq(SeedUsers, 1, 1)
  /\ posts = <<[NewPost(1, "hola", "none") EXCEPT !.commentsCount = 1]>>
  /\ comments = <<NewComment(1, 1, "hola", NoId)>>
  /\ likes = <<>>
  /\ req = [p \in Procs |-> Idle]
  /\ nOps = 0
  /\ now = 0

\* every operation that writes a user, a post or a comment, each request
\* completed before the next one arrives
NextSoftDelete ==
  \/ /\ nOps < MaxSeqOps
     /\ \/ \E h \in BearerHeaders, id \in IdsOf(users) : DeleteUserStart(1, h, id)
        \/ \E h \in BearerHeaders, id \in IdsOf(users), username \in InputUsernames :
             UpdateUserStart(1, h, id, username, "none")
        \/ \E x \in InputUsernames : LoginUserStart(1, x, "Password123")
        \/ \E oauthId \in OAuthIds, email \in OAuthEmails :
             OAuthGoogleStart(1, oauthId, email)
        \/ \E h \in BearerHeaders, id \in IdsOf(posts) : DeletePostStart(1, h, id)
        \/ \E h \in BearerHeaders, id \in IdsOf(posts), extra \in ExtraFields :
             UpdatePostBodyStart(1, h, id, "chau", "none", extra)
        \/ \E u \in ReqUsers, id \in IdsOf(comments) :
             UpdateCommentStart(1, u, id, "editado")
        \/ \E u \in ReqUsers, id \in IdsOf(comments) : DeleteCommentStart(1, u, id)
  \/ AuthFindUser(1)
  \/ DeleteUserFind(1)
  \/ DeleteUserSave(1)
  \/ UpdateUserCheckUsername(1)
  \/ UpdateUserCheckEmail(1)
  \/ UpdateUserWrite(1)
  \/ LoginUserCompare(1)
  \/ LoginUserSave(1)
  \/ OAuthBackfill(1)
  \/ OAuthCreate(1)
  \/ OAuthLastLogin(1)
  \/ PostWriteFind(1)
  \/ DeletePostSave(1)
  \/ UpdatePostSave(1)
  \/ UpdateCommentSave(1)
  \/ DeleteCommentSave(1)
  \/ DeleteCommentInc(1)

SpecSoftDelete == InitOne /\ [][NextSoftDelete]_vars

\* ---------------------------------------------------------- properties
\* no request is being handled
Quiet == \A p \in Procs : Free(p)

ActiveLikesOn(tt, tid) ==
  {l \in IdsOf(likes) : likes[l].targetType = tt /\ likes[l].targetId = tid
                        /\ likes[l].isActive}

LikesOfKey(k) ==
  {l \in IdsOf(likes) : <<likes[l].userId, likes[l].targetType, likes[l].targetId>> = k}

CountOf(tt, tid) ==
  IF tt = "Post" THEN posts[tid].likesCount ELSE comments[tid].likesCount

Targets ==
  {<<"Post", i>> : i \in IdsOf(posts)} \cup {<<"Comment", i>> : i \in IdsOf(comments)}

\* C1: once every toggleLike, createLike and deleteLike request has completed
\* (requests run one at a time), the likesCount of every post and comment
\* equals the number of active Like records that target it.
C1_CountMatchesActiveLikes ==
  Quiet => \A t \in Targets :
             CountOf(t[1], t[2]) = Cardinality(ActiveLikesOn(t[1], t[2]))

\* C2: after N successful toggleLike requests of one user on one target, run
\* one after another from no Like record, the record (exactly one, once
\* N > 0) is active exactly when N is odd, and the target's likesCount is the
\* number of users whose toggle count on it is odd: the user's N toggles
\* moved it by +1 for odd N and by 0 for even N.
C2_ToggleParity ==
  Quiet =>
    /\ \A k \in LikeKeys :
         /\ Cardinality(LikesOfKey(k)) = IF toggles[k] > 0 THEN 1 ELSE 0
         /\ \A l \in LikesOfKey(k) : likes[l].isActive <=> (toggles[k] % 2 = 1)
    /\ \A t \in Targets :
         CountOf(t[1], t[2]) =
           Cardinality({u \in 1..MaxUsers : toggles[<<u, t[1], t[2]>>] % 2 = 1})

\* two toggles of one pair in sequence: unliked again, the count back at its
\* original value, one record
C2_Witness ==
  /\ Quiet
  /\ toggles[<<1, "Post", 1>>] = 2
  /\ Cardinality(LikesOfKey(<<1, "Post", 1>>)) = 1
  /\ posts[1].likesCount = 0

\* C3: no likesCount and no commentsCount is ever negative.
C3_CountsNeverNegative ==
  /\ \A i \in IdsOf(posts) : posts[i].likesCount >= 0 /\ posts[i].commentsCount >= 0
  /\ \A i \in IdsOf(comments) : comments[i].likesCount >= 0

UniqueLikes == \A k \in LikeKeys : Cardinality(LikesOfKey(k)) <= 1

\* C4: there is at most one Like record per (userId, targetType, targetId),
\* also while requests for the same pair run concurrently, and an insert
\* that comes second is answered with a 400 and writes no record.
C4_OneLikePerPair ==
  [][/\ UniqueLikes'
     /\ \A p \in Procs :
          (/\ req[p].pc = "insert" /\ req'[p] # req[p]
           /\ FindLike(req[p].userId, req[p].targetType, req[p].targetId) # NoId)
          => (req'[p].pc = "done" /\ req'[p].status = 400 /\ likes' = likes)]_vars

\* a request lost the race for a pair: its insert was refused
C4_Witness ==
  \E p \in Procs : /\ req[p].op \in {"toggleLike", "createLike"}
                    /\ req[p].pc = "done" /\ req[p].status = 400
                    /\ req[p].message = "Ya existe un registro con userId"
                    /\ Cardinality(LikesOfKey(<<req[p].userId, req[p].targetType,
                                                 req[p].targetId>>)) = 1


UniqueUsers ==
  \A u, v \in IdsOf(users) :
    u # v => /\ users[u].username # users[v].username
             /\ users[u].email # users[v].email

\* a registration (POST /api/users) that answers in this step
Registers(p) ==
  /\ req[p].op = "createUser"
  /\ req[p].pc # "done"
  /\ req'[p].pc = "done"

\* C6: no two users ever share an email or a username, whatever the
\* interleaving of registrations, updates and OAuth sign-ins; and a
\* registration that answers while its email or username is taken answers
\* 400 and creates no user, so of two concurrent registrations with the same
\* email or username only the first to insert succeeds.
C6_UniqueEmailAndUsername ==
  [][/\ UniqueUsers'
     /\ \A p \in Procs :
          (/\ Registers(p)
           /\ \/ UsernameTaken(req[p].username, NoId)
              \/ EmailTaken(req[p].email, NoId))
          => (req'[p].status = 400 /\ users' = users)]_vars

\* two registrations with the same email passed validation together; one
\* created the user and the other lost at the unique index
C6_Witness ==
  \E p, q \in Procs :
    /\ p # q
    /\ req[p].op = "createUser" /\ req[q].op = "createUser"
    /\ req[p].pc = "done" /\ req[q].pc = "done"
    /\ req[p].email = req[q].email
    /\ req[p].status = 201
    /\ req[q].status = 400
    /\ req[q].message = "Ya existe un registro con email"

\* a protected request that authenticate has refused with this error
Refused(p, error) == req[p].pc = "done" /\ req[p].error = error

\* C7: a protected request with a token signed with another secret and one
\* with a correctly signed but expired token are both answered 401, and the
\* two answers differ in their message (invalid against expired).
C7_InvalidAndExpiredDiffer ==
  \A p, q \in Procs :
    (Refused(p, "JsonWebTokenError") /\ Refused(q, "TokenExpiredError"))
    => /\ req[p].status = 401
       /\ req[q].status = 401
       /\ req[p].message # req[q].message

\* C8: a protected request with a valid token of a deactivated user is
\* answered 401 with the message that says the account is inactive.
C8_InactiveUserMessage ==
  \A p \in Procs :
    Refused(p, "Cuenta de usuario inactiva")
    => /\ req[p].status = 401
       /\ req[p].message = "Cuenta de usuario inactiva"

\* a login (POST /api/users/login) that answers in this step
LogsIn(p) ==
  /\ req'[p].op = "loginUser"
  /\ req'[p].pc = "done"
  /\ req[p].pc # "done" \/ req[p].op # "loginUser"

\* C9: a login answers 200 and sets lastLogin only when the user it found
\* has the given password; every other login answers 401 and leaves every
\* lastLogin as it was.
C9_LoginOutcome ==
  [][\A p \in Procs :
       LogsIn(p) =>
         IF req'[p].status = 200
         THEN /\ users[req[p].docId].password = Hash(req[p].password)
              /\ users'[req[p].docId].lastLogin = now
         ELSE /\ req'[p].status = 401
              /\ \A u \in IdsOf(users) : users'[u].lastLogin = users[u].lastLogin]_vars


\* some request in flight is authenticated as user u and runs one of ops
ActsAs(u, ops) ==
  \E p \in Procs : req[p].op \in ops /\ req[p].reqUser = u /\ ~Free(p)

\* C5: a post's content, image or isActive changes only in a step of an
\* updatePost / deletePost request authenticated as the post's owner, and a
\* comment's content or isActive only in a step of an updateComment /
\* deleteComment request authenticated as the comment's owner; for every
\* other caller, anonymous ones included, the resource stays as it was.
C5_OnlyOwnerWrites ==
  [][/\ \A i \in IdsOf(posts) :
          (\/ posts'[i].content # posts[i].content
           \/ posts'[i].imageUrl # posts[i].imageUrl
           \/ posts'[i].isActive # posts[i].isActive)
          => ActsAs(posts[i].userId, {"updatePost", "deletePost"})
     /\ \A i \in IdsOf(comments) :
          (\/ comments'[i].content # comments[i].content
           \/ comments'[i].isActive # comments[i].isActive)
          => ActsAs(comments[i].userId, {"updateComment", "deleteComment"})]_vars

Range(seq) == {seq[k] : k \in 1..Len(seq)}

\* C10: a response of a list, feed, per-user, per-post or search endpoint
\* holds no inactive post and no inactive comment, neither as an entry nor
\* populated inside an entry, and a by-id fetch of an inactive post or
\* comment has answered 404.
C10_InactiveNeverServed ==
  \A p \in Procs :
    (req[p].pc = "done" /\ req[p].status = 200) =>
      /\ req[p].op \in PostLists \cup {"getPostById"} =>
           \A i \in Range(req[p].result) : posts[i].isActive
      /\ req[p].op \in CommentLists \cup {"getCommentById"} =>
           \A i \in Range(req[p].result) : comments[i].isActive
      /\ req[p].op \in CommentLists =>
           \A j \in Range(req[p].nested) : posts[j].isActive


\* a list endpoint has answered with a page
Listed(p) ==
  /\ req[p].pc = "done"
  /\ req[p].status = 200
  /\ req[p].op \in UserLists \cup PostLists \cup CommentLists

LikeRefused(p) ==
  /\ req[p].op \in {"toggleLike", "createLike"}
  /\ req[p].pc = "done"
  /\ req[p].status >= 400

\* C12: when a toggleLike or createLike request has been answered with an
\* error, the Like records and every likesCount are what they were when the
\* request arrived (requests run one at a time).
C12_RefusedLikeChangesNothing ==
  \A p \in Procs :
    LikeRefused(p) =>
      /\ likes = req[p].likesBefore
      /\ LikeCounts = req[p].countsBefore


\* a changePassword request that answers in this step
ChangesPassword(p) ==
  /\ req[p].op = "changePassword"
  /\ req[p].pc # "done"
  /\ req'[p].pc = "done"

\* C13: a changePassword request that succeeds stores the hash of the new
\* password, which differs from the hash it replaces, and one that is
\* rejected leaves every stored hash as it was; a login for a user with a
\* stored hash succeeds exactly when the given password hashes to it, and
\* fails with 401 otherwise. So after a successful change the old password
\* is refused with 401 and the new one is accepted.
C13_ChangePassword ==
  [][\A p \in Procs :
       /\ ChangesPassword(p) =>
            IF req'[p].status = 200
            THEN /\ users'[req[p].docId].password = Hash(req[p].newPassword)
                 /\ users[req[p].docId].password = Hash(req[p].password)
                 /\ Hash(req[p].newPassword) # Hash(req[p].password)
            ELSE \A u \in IdsOf(users) : users'[u].password = users[u].password
       /\ (LogsIn(p) /\ req'[p].docId # NoId /\ users[req'[p].docId].isActive) =>
            IF users[req'[p].docId].password = Hash(req'[p].password)
            THEN req'[p].status = 200
            ELSE req'[p].status = 401]_vars

\* the password was changed and a login with the new password has succeeded
C13_Witness ==
  \E p \in Procs :
    /\ req[p].op = "loginUser"
    /\ req[p].pc = "done"
    /\ req[p].status = 200
    /\ req[p].password = "Otra456789"
    /\ users[req[p].docId].password = Hash("Otra456789")


\* C14: a call of refreshAccessToken with a refresh token that verified and
\* named an existing active user has returned a new access token to its
\* caller, and a call with any other token has failed with a 401 error.
C14_RefreshReturnsToken ==
  \A p \in Procs :
    (req[p].op = "refreshAccessToken" /\ req[p].pc = "done") =>
      IF req[p].flag
      THEN req[p].returned = "accessToken"
      ELSE req[p].status = 401


\* the users an OAuth callback in flight matches: by its (oauthId, provider)
\* pair or by its email
OAuthMatches(p) ==
  {u \in IdsOf(users) :
     \/ /\ users[u].oauthId = req[p].username
        /\ users[u].oauthProvider = OAuthProviderOf(req[p].op)
     \/ users[u].email = Lower(req[p].email)}

\* C15: in every step of an OAuth callback whose email is registered or whose
\* (oauthId, provider) pair is stored, no user is created, oauthId and
\* oauthProvider change only on a user whose oauthId was empty, and when the
\* callback finishes it succeeds with the lastLogin of the user it used
\* refreshed.
C15_OAuthLinksExisting ==
  [][\A p \in Procs :
       (/\ req[p].op \in OAuthOps
        /\ req'[p] # req[p]
        /\ OAuthMatches(p) # {})
       => /\ Len(users') = Len(users)
          /\ \A u \in IdsOf(users) :
               (\/ users'[u].oauthId # users[u].oauthId
                \/ users'[u].oauthProvider # users[u].oauthProvider)
               => (u \in OAuthMatches(p) /\ users[u].oauthId = "none")
          /\ req'[p].pc = "done" =>
               /\ req'[p].status = 200
               /\ req'[p].docId \in OAuthMatches(p)
               /\ users'[req'[p].docId].lastLogin = now]_vars

\* a user registered with a password signed in through Google: linked,
\* not duplicated
C15_Witness ==
  \E p \in Procs :
    /\ req[p].op = "oauthGoogle"
    /\ req[p].pc = "done"
    /\ req[p].status = 200
    /\ users[req[p].docId].password # "none"
    /\ users[req[p].docId].oauthId = req[p].username
    /\ users[req[p].docId].oauthProvider = "google"
    /\ Len(users) = 1


\* the contentType that the stored fields of a post call for
TypeOfFields(post) ==
  CASE post.content # "" /\ post.imageUrl = "none" -> "text"
    [] post.content # "" /\ post.imageUrl # "none" -> "text_image"
    [] OTHER -> "image"

\* an update by the author that empties the content of a post with an image
RemovesContent(p) ==
  /\ req[p].op = "updatePost"
  /\ req[p].pc = "done"
  /\ req[p].content = ""
  /\ req[p].imageUrl = "none"
  /\ Exists(posts, req[p].docId)
  /\ posts[req[p].docId].userId = req[p].reqUser
  /\ posts[req[p].docId].imageUrl # "none"

\* C16: every stored post has the contentType of its stored fields, and an
\* update by which the author removes the content of a post with an image is
\* accepted and leaves the post with contentType 'image' (requests run one
\* at a time).
C16_ContentTypeMatchesFields ==
  /\ \A i \in IdsOf(posts) : posts[i].contentType = TypeOfFields(posts[i])
  /\ \A p \in Procs :
       RemovesContent(p) =>
         /\ req[p].status = 200
         /\ posts[req[p].docId].content = ""
         /\ posts[req[p].docId].contentType = "image"


\* a GET /api/users request with a query that validateQueryParams refuses,
\* once it is answered
InvalidUserQuery(p) ==
  /\ req[p].op = "getAllUsers"
  /\ req[p].flag
  /\ req[p].pc = "done"

\* C17: GET /api/users with a non-integer page or limit, a limit above 100
\* or a sortBy that is not an allowed field is answered 400 'Errores de
\* validación', and no query has run for it: the answer carries no users and
\* no count.
C17_InvalidUserQueryRejected ==
  \A p \in Procs :
    InvalidUserQuery(p) =>
      /\ req[p].status = 400
      /\ req[p].message = "Errores de validación"
      /\ req[p].result = <<>>
      /\ req[p].total = 0


\* a protected request arrives at slot p with the Authorization header h
Arrives(p, h) ==
  \/ GetUserProfileStart(p, h)
  \/ \E id \in 1..(Len(users) + 1) : DeleteUserStart(p, h, id)

\* a bearer token signed with the access-token secret and not yet expired
TokenAccepted(h) ==
  /\ h.scheme = "Bearer"
  /\ h.token.secret = "JWT_SECRET"
  /\ now < h.token.exp

\* the route's handler has control of the request
InHandler(r) == r.pc \notin {"idle", "authUser", "done"}

\* C18: a protected request goes on to the user lookup only with a bearer
\* token that verifies against the access-token secret and is unexpired, and
\* from there to its handler only when the token names an existing user with
\* isActive = true, with req.user that user; in every other case it is
\* answered 401 and its handler never has control.
C18_AuthenticateGuardsHandler ==
  [][\A p \in Procs :
       /\ (Free(p) /\ req'[p] # req[p]) =>
            \A h \in Headers :
              Arrives(p, h) =>
                IF TokenAccepted(h)
                THEN /\ req'[p].pc = "authUser"
                     /\ req'[p].userId = h.token.id
                ELSE /\ req'[p].pc = "done"
                     /\ req'[p].status = 401
       /\ (req[p].pc = "authUser" /\ req'[p] # req[p]) =>
            IF /\ Exists(users, req[p].userId)
               /\ users[req[p].userId].isActive
            THEN /\ req'[p].pc = "handler"
                 /\ req'[p].reqUser = req[p].userId
            ELSE /\ req'[p].pc = "done"
                 /\ req'[p].status = 401
       /\ (InHandler(req'[p]) /\ ~InHandler(req[p])) => req[p].pc = "authUser"
       /\ (req'[p].pc = "done" /\ req'[p] # req[p] /\ ~InHandler(req[p])) =>
            req'[p].status = 401]_vars

\* one request was served its profile as the user of its token while another
\* was refused for an expired token
C18_Witness ==
  \E p, q \in Procs :
    /\ At(p, "getUserProfile", "done")
    /\ req[p].status = 200
    /\ req[p].reqUser = req[p].userId
    /\ req[p].reqUser # NoId
    /\ req[q].pc = "done"
    /\ req[q].status = 401
    /\ req[q].error = "TokenExpiredError"


\* the like state of a (user, target) pair in a collection of Like records
LikeState(ls, u, tt, tid) ==
  LET hits == {l \in 1..Len(ls) : /\ ls[l].userId = u
                                  /\ ls[l].targetType = tt
                                  /\ ls[l].targetId = tid}
  IN  IF hits = {} THEN "NoRecord"
      ELSE IF \A l \in hits : ls[l].isActive THEN "Active"
      ELSE "Inactive"

\* the state the machine moves to on a successful toggleLike
AfterToggle(state) == IF state = "Active" THEN "Inactive" ELSE "Active"

\* a toggleLike request is answered 200 in this step
ToggleAnswers(p) ==
  /\ req[p].op = "toggleLike"
  /\ req[p].pc # "done"
  /\ req'[p].pc = "done"
  /\ req'[p].status = 200

\* C19: no step removes a Like record or changes the pair it belongs to; a
\* successful toggleLike leaves its pair Active when it found no record or
\* an inactive one and Inactive when it found an active one, and its action
\* label is 'liked' exactly when the record is then active, 'unliked'
\* otherwise (requests run one at a time).
C19_LikeStateMachine ==
  [][/\ \A l \in IdsOf(likes) :
          /\ l \in IdsOf(likes')
          /\ likes'[l].userId = likes[l].userId
          /\ likes'[l].targetType = likes[l].targetType
          /\ likes'[l].targetId = likes[l].targetId
     /\ \A p \in Procs :
          ToggleAnswers(p) =>
            LET u == req[p].userId
                tt == req[p].targetType
                tid == req[p].targetId
                before == LikeState(req[p].likesBefore, u, tt, tid)
                after == LikeState(likes', u, tt, tid)
            IN  /\ after = AfterToggle(before)
                /\ req'[p].returned = IF after = "Active" THEN "liked"
                                                          ELSE "unliked"]_vars

\* a pair was toggled twice: the second answer was 'unliked' and the record,
\* still stored, is inactive
C19_Witness ==
  \E p \in Procs :
    /\ At(p, "toggleLike", "done")
    /\ req[p].status = 200
    /\ req[p].returned = "unliked"
    /\ LikeState(req[p].likesBefore, req[p].userId, req[p].targetType,
                 req[p].targetId) = "Active"
    /\ LikeState(likes, req[p].userId, req[p].targetType,
                 req[p].targetId) = "Inactive"


\* the users who have completed a like of the target
Likers(tt, tid) == {likes[l].userId : l \in ActiveLikesOn(tt, tid)}

\* the requests that have incremented the target's counter and have not yet
\* written their Like record
Inserting(tt, tid) ==
  {p \in Procs : /\ req[p].pc = "insert"
                 /\ req[p].targetType = tt
                 /\ req[p].targetId = tid}

\* C20: while different users first-like a target (toggleLike or createLike),
\* their requests interleaved in any way, the target's likesCount is the
\* number of users whose like is complete plus the number of requests between
\* their increment and their insert; once k users are done and no request is
\* in flight it has increased from 0 by exactly k.
C20_NoIncrementLost ==
  \A t \in Targets :
    CountOf(t[1], t[2]) =
      Cardinality(Likers(t[1], t[2])) + Cardinality(Inserting(t[1], t[2]))

\* two users have completed their first like of post 1, one through
\* toggleLike and one through createLike
C20_Witness ==
  \E p, q \in Procs :
    /\ At(p, "toggleLike", "done") /\ req[p].status = 200
    /\ At(q, "createLike", "done") /\ req[q].status = 201
    /\ req[p].userId # req[q].userId
    /\ req[p].targetType = "Post" /\ req[p].targetId = 1
    /\ req[q].targetType = "Post" /\ req[q].targetId = 1
    /\ Likers("Post", 1) = {req[p].userId, req[q].userId}
    /\ posts[1].likesCount = 2


\* the active comments of a post, replies included
ActiveCommentsOf(pid) ==
  {c \in IdsOf(comments) : comments[c].postId = pid /\ comments[c].isActive}

\* C21: once every createComment and deleteComment request has completed
\* (requests run one at a time), the commentsCount of every post equals the
\* number of its comments, replies included, with isActive = true.
C21_CountMatchesActiveComments ==
  Quiet => \A i \in IdsOf(posts) :
             posts[i].commentsCount = Cardinality(ActiveCommentsOf(i))


\* updatePost or deletePost of the author, an update with a valid body that
\* carries some field, looks up a post that is stored and soft-deleted
FindsDeletedPost(p) ==
  /\ req[p].op \in {"updatePost", "deletePost"}
  /\ req[p].pc = "handler"
  /\ req'[p] # req[p]
  /\ req[p].content # ""
  /\ req[p].op = "updatePost" => (req[p].content # "none" \/ req[p].imageUrl # "none")
  /\ Exists(posts, req[p].docId)
  /\ posts[req[p].docId].userId = req[p].reqUser
  /\ ~posts[req[p].docId].isActive

\* updateComment or deleteComment, with a valid body, arrives for a comment
\* that is stored and soft-deleted
FindsDeletedComment(p) ==
  /\ Free(p)
  /\ req'[p] # req[p]
  /\ req'[p].op \in {"updateComment", "deleteComment"}
  /\ req'[p].status # 400
  /\ Exists(comments, req'[p].docId)
  /\ ~comments[req'[p].docId].isActive

\* C22: updatePost, deletePost, updateComment and deleteComment addressed to
\* a post or comment whose isActive is false are answered 404 by the lookup
\* and write nothing.
C22_DeletedAnswers404 ==
  [][\A p \in Procs :
       (FindsDeletedPost(p) \/ FindsDeletedComment(p)) =>
         /\ req'[p].pc = "done"
         /\ req'[p].status = 404
         /\ posts' = posts
         /\ comments' = comments]_vars


\* C23: every comment that has a parentCommentId points to a stored comment
\* whose own parentCommentId is null.
C23_OneLevelThreading ==
  \A c \in IdsOf(comments) :
    comments[c].parentCommentId # NoId =>
      /\ Exists(comments, comments[c].parentCommentId)
      /\ comments[comments[c].parentCommentId].parentCommentId = NoId


\* an updatePost request saves and is answered 200 in this step
UpdateSaves(p) ==
  /\ At(p, "updatePost", "save")
  /\ req'[p].pc = "done"
  /\ req'[p].status = 200

\* C24: the step in which a successful updatePost saves leaves the userId,
\* isActive, likesCount and commentsCount of its post as the store holds them
\* at that moment, whatever other field the body names, so a like or comment
\* counted since the post was loaded stays counted; it changes no other post.
C24_UpdatePostFrame ==
  [][\A p \in Procs :
       UpdateSaves(p) =>
         /\ Len(posts') = Len(posts)
         /\ \A i \in IdsOf(posts) :
              /\ posts'[i].userId = posts[i].userId
              /\ posts'[i].isActive = posts[i].isActive
              /\ posts'[i].likesCount = posts[i].likesCount
              /\ posts'[i].commentsCount = posts[i].commentsCount
              /\ i # req[p].docId => posts'[i] = posts[i]]_vars

\* an update whose body also named a counter or a protected field was
\* answered 200 after a like of its post had been counted, while the like's
\* request was still in flight
C24_Witness ==
  \E p, q \in Procs :
    /\ At(p, "updatePost", "done")
    /\ req[p].status = 200
    /\ req[p].extra \in ExtraFields
    /\ req[q].op = "toggleLike"
    /\ req[q].pc = "insert"
    /\ req[q].targetId = req[p].docId
    /\ posts[req[p].docId].likesCount = 1
    /\ posts[req[p].docId].content = req[p].content


\* a deletePost request saves and is answered in this step
DeleteSaves(p) ==
  /\ At(p, "deletePost", "save")
  /\ req'[p].pc = "done"

\* a by-id fetch looks up a stored, active comment
FetchesActiveComment(p) ==
  /\ At(p, "getCommentById", "findById")
  /\ req'[p] # req[p]
  /\ Exists(comments, req[p].docId)
  /\ comments[req[p].docId].isActive

\* C25: the step in which deletePost saves sets isActive = false on its post
\* and changes nothing else: every other field and counter of the post, every
\* other post, every comment and every like stay as they are; and a by-id
\* fetch of an active comment answers 200 with that comment, also when its
\* post is soft-deleted.
C25_DeletePostFrame ==
  [][\A p \in Procs :
       /\ DeleteSaves(p) =>
            /\ posts' = [posts EXCEPT ![req[p].docId].isActive = FALSE]
            /\ comments' = comments
            /\ likes' = likes
            /\ users' = users
       /\ FetchesActiveComment(p) =>
            /\ req'[p].status = 200
            /\ req'[p].result = <<req[p].docId>>]_vars

\* an active comment of a soft-deleted post was fetched by id
C25_Witness ==
  \E p \in Procs :
    /\ At(p, "getCommentById", "done")
    /\ req[p].status = 200
    /\ req[p].result = <<req[p].docId>>
    /\ comments[req[p].docId].isActive
    /\ ~posts[comments[req[p].docId].postId].isActive
    /\ posts[comments[req[p].docId].postId].commentsCount = 1

\* the success handler answered an OAuth callback
OAuthSuccess(r) ==
  /\ r.status = 200
  /\ r.message = "Autenticación OAuth completada exitosamente"

\* the failure handler answered an OAuth callback
OAuthFailure(r) ==
  /\ r.status = 302
  /\ r.message = "Error en la autenticación OAuth"

\* C26: every answered OAuth callback was answered by the success handler or
\* by the failure handler, never by an error raised past them.
C26_OAuthEndsInSuccessOrFailure ==
  \A p \in Procs :
    (req[p].op \in OAuthOps /\ req[p].pc = "done") =>
      (OAuthSuccess(req[p]) \/ OAuthFailure(req[p]))

\* C27: a request that carries a refresh token of generateTokens never gets
\* past authenticate to its handler, and refreshAccessToken never verifies an
\* access token of generateTokens nor issues a token for it, with or without
\* a refresh secret of its own.
C27_TokenKindsNotInterchangeable ==
  \A p \in Procs :
    /\ (req[p].op = "getUserProfile" /\ req[p].extra = "refreshToken") =>
         /\ req[p].pc # "handler"
         /\ req[p].status # 200
    /\ (req[p].op = "refreshAccessToken" /\ req[p].extra = "accessToken") =>
         /\ req[p].pc # "findUser"
         /\ ~req[p].flag

\* a password login arrives whose email or username matches a deactivated user
LoginOfDeactivated(p) ==
  /\ Free(p)
  /\ req'[p] # req[p]
  /\ req'[p].op = "loginUser"
  /\ FindByLogin(req'[p].username) # NoId
  /\ ~users[FindByLogin(req'[p].username)].isActive

\* an OAuth callback whose profile matched a deactivated user is answered
OAuthOfDeactivated(p) ==
  /\ req[p].op \in OAuthOps
  /\ req[p].pc = "lastLogin"
  /\ ~users[req[p].docId].isActive
  /\ req'[p].pc = "done"

\* C28: a deactivated user completes no login: a password login that matches
\* the user is answered 401, and an OAuth callback that matched the user by
\* email or oauthId is not answered by the success handler.
C28_DeactivatedCannotLogIn ==
  [][\A p \in Procs :
       /\ LoginOfDeactivated(p) =>
            /\ req'[p].pc = "done"
            /\ req'[p].status = 401
       /\ OAuthOfDeactivated(p) => ~OAuthSuccess(req'[p])]_vars

\* the records of a collection that are soft-deleted stay so in the next state
StaysDeleted(before, after) ==
  \A i \in IdsOf(before) : ~before[i].isActive => ~after[i].isActive

\* C29: no step of any operation sets isActive back to true on a user, a
\* post or a comment whose isActive is false.
C29_SoftDeleteIsPermanent ==
  [][/\ StaysDeleted(users, users')
     /\ StaysDeleted(posts, posts')
     /\ StaysDeleted(comments, comments')]_vars

\* a soft-deleted comment was edited, and is still soft-deleted
C29_Witness ==
  \E p \in Procs :
    /\ At(p, "updateComment", "done")
    /\ req[p].status = 200
    /\ comments[req[p].docId].isEdited
    /\ ~comments[req[p].docId].isActive

====
